---- MODULE Spec2Model ----
(***************************************************************************)
(* The room core of the buzzer server: GameStore (apps/server/src/store.ts)*)
(* over one room of the RoomRegistry, driven by the HTTP routes and the    *)
(* websocket handler of apps/server/src/index.ts.                          *)
(*                                                                         *)
(* Node runs every synchronous handler to completion, so each synchronous  *)
(* GameStore method is one action.  activateQuestion is async: it is split *)
(* at its single await (the question fetch) into ActivateStart and         *)
(* ActivateResume / ActivateFetchFail.                                     *)
(***************************************************************************)
EXTENDS Integers, Sequences, FiniteSets, TLC

\* ---------------------------------------------------------------- bounds
MaxJoins == 3        \* joins accepted over the life of the room
MaxPending == 2      \* activateQuestion calls suspended at their fetch at one time
MaxOverlapJoins == 2 \* joins accepted in a room whose activations overlap
MaxConns == 1        \* websocket connections registered over the life of the room
MaxConnJoins == 2    \* joins accepted in a room with websocket connections
MaxShareConns == 2   \* websocket connections registered in a room that shares codes
MaxShareJoins == 1   \* joins accepted in a room that shares codes
MaxDropJoins == 2    \* joins accepted in a room whose connections drop
MaxDropConns == 2    \* websocket connections registered in that room
MaxErrJoins == 2     \* joins accepted in a room whose callers are rejected
MaxErrConns == 1     \* websocket connections registered in that room
MaxSnapJoins == 2    \* joins accepted in a room whose snapshots are read
MaxSnapConns == 1    \* websocket connections registered in that room
MaxTicks == 2        \* times the clock is seen to advance
MaxCastJoins == 2    \* joins accepted in a room whose broadcasts are followed
MaxCastConns == 2    \* websocket connections registered in that room
MaxGoneJoins == 1    \* joins accepted in a room that the host destroys
MaxGoneConns == 2    \* websocket connections registered in that room
MaxCreates == 3      \* createRoom calls made besides those of the two rooms above
MaxRebornJoins == 2  \* joins accepted under a code that is drawn again
MaxRebornConns == 2  \* websocket connections registered under that code

\* ------------------------------------------------------- null encodings
NoPlayer == 0        \* null / undefined player id
NullIndex == -2      \* null turn index (-1 is a legal fromIndex of advanceTurn)
NoQuestionId == 0    \* id field of an absent question
NoShareCode == 0     \* null / undefined share code
NoTime == -1         \* null / undefined timestamp

PlayerIds == 1..MaxJoins
QuestionIds == {1, 2}
Categories == {"science"}            \* categories a host requests
ProviderCategories == {"physics"}    \* categories the provider reports
Difficulties == {"easy"}
hostSecret == "good"
Secrets == {hostSecret, "bad"}         \* secrets a caller may present
NoCategory == "none"
NoDifficulty == "none"
Absent == "absent"                   \* a key a snapshot does not carry

\* the room modelled in full, and another room of the same GameStore of which
\* only the share code is modelled; the Map this.rooms iterates in this order
thisRoom == "ROOM"
otherRoom == "OTHR"
RoomCodes == {otherRoom, thisRoom}
roomOrder == <<otherRoom, thisRoom>>

\* store.ts generateShareCode: the 4-digit codes it can draw
ShareCodes == {1, 2, 3}

\* store.ts SHARE_CODE_TTL (milliseconds)
SHARE_CODE_TTL == 5 * 60 * 1000

\* the amounts of time seen to pass between two operations
TickSteps == {SHARE_CODE_TTL - 1, 1}

\* store.ts DIFFICULTY_POINTS and pointsForDifficulty
pointsForDifficulty(difficulty) ==
    CASE difficulty = "easy" -> 150
      [] difficulty = "medium" -> 250
      [] difficulty = "hard" -> 400
      [] OTHER -> 200

\* store.ts activateQuestion: slotKey = `${slotCategory}|${question.difficulty}`
\* store.ts createRoom: the calls, and the codes generateRoomCode may draw for
\* them
Creates == 1..MaxCreates
FreshCodes == {"AAAA", "BBBB"}
NoCode == ""         \* no code drawn / not returned
NoCreate == 0        \* no room under the code

slotKey(category, difficulty) == <<category, difficulty>>

SlotKeys == {slotKey(c, d) : c \in Categories \cup ProviderCategories, d \in Difficulties}


VARIABLES
    registered,          \* the room is in the RoomRegistry
    nextPlayer,          \* next fresh player id (nanoid)
    players,             \* key set of room.players
    score,               \* player.score
    buzzedAt,            \* players carrying a buzzedAt timestamp
    turnOrder,           \* room.turnOrder
    currentTurnIndex,    \* room.currentTurnIndex (0-based) or NullIndex
    currentTurnId,       \* room.currentTurnId or NoPlayer
    activeQuestion,      \* room.activeQuestion (present = FALSE: undefined)
    questionActive,      \* room.questionActive
    buzzedBy,            \* room.buzzedBy or NoPlayer
    lastResult,          \* room.lastResult (present = FALSE: undefined)
    usedQuestions,       \* room.usedQuestions
    usedCategorySlots,   \* room.usedCategorySlots
    pending,             \* activateQuestion calls suspended at the fetch
    nextConn,            \* next fresh connection
    connections,         \* room.connections
    closing,             \* sockets no longer OPEN whose close event is still to come
    lastOp,              \* the last completed operation and its outcome
    totalAwarded,        \* sum of pointsAwarded over the questions marked correct
    leftWith,            \* sum of the scores players held when they were removed
    everActivated,       \* per slot key, the number of activations that committed with it
    buzzWins,            \* successful buzzes since buzzers were last opened
    share,               \* per room: shareCode, shareCodeIssuedAt, shareCodeExpiresAt
    now,                 \* Date.now()
    ticks,               \* times the clock has advanced
    replaced,            \* the room of the last issueShareCode and the live code it replaced
    sent,                \* the frames the last step pushed to connections and readers
    creating,            \* per createRoom call suspended at the category preload, its code
    created,             \* per fresh code, the createRoom call whose room this.rooms holds
    returned,            \* per createRoom call that returned, the code of its room
    recreating,          \* a createRoom call that drew the code of the room again is suspended
    bornAt,              \* the value of nextConn when the room now held under the code was created
    fetch                \* a fetchTriviaQuestion call followed request by request

roomVars == <<registered, players, score, buzzedAt, turnOrder,
              currentTurnIndex, currentTurnId, activeQuestion, questionActive,
              buzzedBy, lastResult, usedQuestions, usedCategorySlots, connections>>

histVars == <<totalAwarded, leftWith, everActivated, buzzWins>>

shareVars == <<share, now, ticks, replaced>>

createVars == <<creating, created, returned, recreating, bornAt>>

fetchVars == <<fetch>>

vars == <<roomVars, nextPlayer, pending, nextConn, closing, lastOp, histVars,
          shareVars, sent, createVars, fetchVars>>

\* types.ts GameRoom.activeQuestion, absent
NoQuestion ==
    [present |-> FALSE, id |-> NoQuestionId, stage |-> "none",
     assignedTo |-> NoPlayer, answeringPlayerId |-> NoPlayer,
     attemptedPlayerIds |-> {}, turnIndex |-> NullIndex,
     category |-> NoCategory, difficulty |-> NoDifficulty, points |-> 0,
     correctAnswer |-> Absent, choices |-> Absent]

\* types.ts GameRoom.shareCode, shareCodeIssuedAt, shareCodeExpiresAt, absent
NoShare == [code |-> NoShareCode, issuedAt |-> NoTime, expiresAt |-> NoTime]

\* store.ts issueShareCode: what an issue in room r at time t replaces when the
\* room holds the share fields s: the code of s if it has not expired
NoReplaced == [room |-> NoCode, code |-> NoShareCode]
Replaces(r, s, t) ==
    IF s.code # NoShareCode /\ s.expiresAt # NoTime /\ s.expiresAt > t
    THEN [room |-> r, code |-> s.code]
    ELSE NoReplaced

\* no fetchTriviaQuestion call has been made
NoFetch ==
    [stage |-> "idle", excludeIds |-> {}, loaded |-> FALSE, fallback |-> {},
     attempt |-> 0, replies |-> <<>>, source |-> "none", result |-> NoQuestionId,
     error |-> "none"]

\* types.ts GameRoom.lastResult, absent
NoResult ==
    [present |-> FALSE, id |-> NoQuestionId, answeredCorrectly |-> FALSE,
     answeredBy |-> NoPlayer, assignedTo |-> NoPlayer, pointsAwarded |-> 0]

Op(op, result) == [op |-> op, result |-> result]

\* ------------------------------------------------------------- helpers
\* Array.prototype.indexOf, 0-based, -1 when absent
IndexOf(seq, x) ==
    IF \E i \in 1..Len(seq) : seq[i] = x
    THEN (CHOOSE i \in 1..Len(seq) :
              seq[i] = x /\ \A j \in 1..(i - 1) : seq[j] # x) - 1
    ELSE -1

\* nothing is removed
Splice_RemovesNothing(seq, index) == seq

\* Array.prototype.splice(index, 1), 0-based
Splice(seq, index) ==
    [i \in 1..(Len(seq) - 1) |-> IF i <= index THEN seq[i] ELSE seq[i + 1]]

\* turnOrder[index], undefined (NoPlayer) out of range
At(seq, index) ==
    IF index >= 0 /\ index < Len(seq) THEN seq[index + 1] ELSE NoPlayer

RECURSIVE SumOver(_, _)
SumOver(f, S) ==
    IF S = {} THEN 0
    ELSE LET x == CHOOSE y \in S : TRUE IN f[x] + SumOver(f, S \ {x})

Turn(index, id) == [index |-> index, id |-> id]

\* the index after startIndex is taken without wrapping around
advanceTurn_PastEnd(order, present, index, fromIndex) ==
    IF Len(order) = 0 THEN Turn(NullIndex, NoPlayer)
    ELSE LET startIndex == IF fromIndex # NullIndex THEN fromIndex
                           ELSE IF index # NullIndex THEN index ELSE 0
         IN Turn(startIndex + 1, At(order, (startIndex + 1) % Len(order)))

\* store.ts advanceTurn: the new (currentTurnIndex, currentTurnId)
advanceTurn(order, present, index, fromIndex) ==
    IF Len(order) = 0 THEN Turn(NullIndex, NoPlayer)
    ELSE LET startIndex == IF fromIndex # NullIndex THEN fromIndex
                           ELSE IF index # NullIndex THEN index ELSE 0
             nextIndex(offset) == (startIndex + offset + Len(order)) % Len(order)
             hits == {offset \in 1..Len(order) : At(order, nextIndex(offset)) \in present}
         IN IF hits = {} THEN Turn(NullIndex, NoPlayer)
            ELSE LET first == CHOOSE o \in hits : \A p \in hits : o <= p
                 IN Turn(nextIndex(first), At(order, nextIndex(first)))

\* the cached id is returned as it is, never resolved from the index
getCurrentTurnPlayerId_KeepsCache(order, present, index, id) == Turn(index, id)

\* store.ts getCurrentTurnPlayerId: the (currentTurnIndex, currentTurnId) it
\* leaves behind; its return value is the id of that pair
getCurrentTurnPlayerId(order, present, index, id) ==
    IF id # NoPlayer /\ id \in present THEN Turn(index, id)
    ELSE IF index = NullIndex \/ Len(order) = 0 THEN Turn(index, NoPlayer)
    ELSE LET candidate == At(order, index)
         IN IF candidate # NoPlayer /\ candidate \in present
            THEN Turn(index, candidate)
            ELSE advanceTurn(order, present, index, index - 1)

\* connections whose socket.readyState is OPEN
OpenOf(conns, closed) == {c \in conns : c.id \notin closed}

\* store.ts broadcastState: every open connection is sent buildSnapshot, which
\* resolves the turn through getCurrentTurnPlayerId.  The turn pair the
\* broadcast leaves behind:
broadcastTurn(conns, closed, order, present, index, id) ==
    IF OpenOf(conns, closed) # {}
    THEN getCurrentTurnPlayerId(order, present, index, id)
    ELSE Turn(index, id)

\* a connection whose socket is not OPEN stays in the set
broadcastConnections_KeepsStale(conns, closed) == conns

\* store.ts broadcastState: connections that are not OPEN are dropped
broadcastConnections(conns, closed) == OpenOf(conns, closed)

\* a share code is kept however old it is
cleanupShareCode_KeepsExpired(s, t) == s

\* store.ts cleanupShareCode: the share fields of a room after it, at time t
cleanupShareCode(s, t) ==
    IF s.code = NoShareCode THEN s
    ELSE IF s.expiresAt # NoTime /\ s.expiresAt > t THEN s
    ELSE NoShare

\* store.ts getActiveShareInfo, null being NoShare
getActiveShareInfo(s, t) == cleanupShareCode(s, t)

\* every room hands out the answer and the share code
buildSnapshot_IgnoresOptions(question, shareInfo, options) ==
    [activeQuestion |->
         [id |-> question.id, stage |-> question.stage,
          correctAnswer |-> question.correctAnswer,
          choices |-> question.choices],
     shareCode |-> shareInfo.code,
     shareCodeIssuedAt |-> shareInfo.issuedAt,
     shareCodeExpiresAt |-> shareInfo.expiresAt]

\* store.ts buildSnapshot: the fields of the snapshot that depend on its options,
\* with the id and stage of the active question and shareCodeExpiresAt
buildSnapshot(question, shareInfo, options) ==
    [activeQuestion |->
         [id |-> question.id, stage |-> question.stage,
          correctAnswer |-> IF question.present /\ options.includeCorrectAnswer
                            THEN question.correctAnswer ELSE Absent,
          choices |-> IF question.present /\ options.includeCorrectAnswer
                      THEN question.choices ELSE Absent],
     shareCode |-> IF options.includeShareCode THEN shareInfo.code ELSE NoShareCode,
     shareCodeIssuedAt |-> IF options.includeShareCode THEN shareInfo.issuedAt ELSE NoTime,
     shareCodeExpiresAt |-> shareInfo.expiresAt]

\* store.ts buildSnapshot, options = {}: both options default to false
defaultOptions == [includeCorrectAnswer |-> FALSE, includeShareCode |-> FALSE]

\* store.ts broadcastState / sendStateToConnection: the options for a connection
optionsFor(role) ==
    [includeCorrectAnswer |-> role = "host", includeShareCode |-> role = "host"]

\* every build moves the turn on to the next player
builtSnapshot_AdvancesTurn(order, present, index, id, question, s, t, options) ==
    LET turn == advanceTurn(order, present, index, index)
        shareInfo == getActiveShareInfo(s, t)
    IN [turn |-> turn,
        share |-> shareInfo,
        currentTurn |-> turn.id,
        snapshot |-> buildSnapshot(question, shareInfo, options)]

\* store.ts buildSnapshot as a whole, after cleanupShareCode: the snapshot it
\* returns, with its currentTurn, and the turn pair and share fields it leaves
\* in the room
builtSnapshot(order, present, index, id, question, s, t, options) ==
    LET turn == getCurrentTurnPlayerId(order, present, index, id)
        shareInfo == getActiveShareInfo(s, t)
    IN [turn |-> turn,
        share |-> shareInfo,
        currentTurn |-> turn.id,
        snapshot |-> buildSnapshot(question, shareInfo, options)]

\* a message that has no receiving connection of the room: the reply to the
\* HTTP read
NoConn == 0

\* store.ts broadcastState / sendStateToConnection: the frame
\* {type: "state", payload: buildSnapshot(...)} as the socket `to` receives
\* it, with the currentTurn of the payload kept beside the other fields
stateMessage(to, role, turnId, question, shareInfo, options) ==
    [type |-> "state", to |-> to, role |-> role, currentTurn |-> turnId,
     snapshot |-> buildSnapshot(question, shareInfo, options)]

\* index.ts sendError / store.ts destroyRoom: the frame
\* {type: "error", message} as the socket `to` receives it
errorMessage(to, role, message) ==
    [type |-> "error", to |-> to, role |-> role, message |-> message]

\* store.ts broadcastState: the state messages that go out, one per open
\* connection
broadcastState(conns, closed, question, shareInfo, turnId) ==
    {stateMessage(c.id, c.role, turnId, question, shareInfo, optionsFor(c.role)) :
         c \in OpenOf(conns, closed)}

\* the keys of this.rooms
rooms == IF registered THEN RoomCodes ELSE RoomCodes \ {thisRoom}

\* ---------------------------------------------------------------- Init
\* store.ts createRoom
Init ==
    /\ registered = TRUE
    /\ nextPlayer = 1
    /\ players = {}
    /\ score = [p \in PlayerIds |-> 0]
    /\ buzzedAt = {}
    /\ turnOrder = <<>>
    /\ currentTurnIndex = NullIndex
    /\ currentTurnId = NoPlayer
    /\ activeQuestion = NoQuestion
    /\ questionActive = FALSE
    /\ buzzedBy = NoPlayer
    /\ lastResult = NoResult
    /\ usedQuestions = {}
    /\ usedCategorySlots = {}
    /\ pending = <<>>
    /\ nextConn = 1
    /\ connections = {}
    /\ closing = {}
    /\ lastOp = Op("createRoom", "ok")
    /\ totalAwarded = 0
    /\ leftWith = 0
    /\ everActivated = [k \in SlotKeys |-> 0]
    /\ buzzWins = 0
    /\ share = [r \in RoomCodes |-> NoShare]
    /\ now = 0
    /\ ticks = 0
    /\ replaced = NoReplaced
    /\ sent = {}
    /\ creating = [k \in Creates |-> NoCode]
    /\ created = [c \in FreshCodes |-> NoCreate]
    /\ returned = [k \in Creates |-> NoCode]
    /\ recreating = FALSE
    /\ bornAt = 1
    /\ fetch = NoFetch

\* nothing is delivered and no share code is looked at
Silent ==
    /\ sent' = {}
    /\ UNCHANGED shareVars

\* An operation that throws: nothing but the outcome changes.
Fails(op, error) ==
    /\ lastOp' = Op(op, error)
    /\ Silent
    /\ UNCHANGED <<roomVars, nextPlayer, createVars, fetchVars, pending, nextConn, closing, histVars>>

\* any secret is accepted
verifyHost_AcceptsAny(secret) ==
    IF ~registered THEN "Room not found" ELSE "ok"

\* store.ts verifyHost (with ensureRoom): the error it throws, "ok" when it returns
verifyHost(secret) ==
    IF ~registered THEN "Room not found"
    ELSE IF secret # hostSecret THEN "Forbidden"
    ELSE "ok"

\* the broadcast goes out before the transition has written the room
Broadcast_BeforeWrites(question, order, present, index, id) ==
    LET turn == broadcastTurn(connections, closing, order, present, index, id)
        shareInfo == cleanupShareCode(share[thisRoom], now)
    IN /\ currentTurnIndex' = turn.index
       /\ currentTurnId' = turn.id
       /\ connections' = broadcastConnections(connections, closing)
       /\ share' = [share EXCEPT ![thisRoom] = shareInfo]
       /\ sent' = broadcastState(connections, closing, activeQuestion, shareInfo,
                                 currentTurnId)
       /\ UNCHANGED <<now, ticks, replaced>>

\* store.ts broadcastState at the end of a committed transition of this room,
\* over the new question and turn state
Broadcast(question, order, present, index, id) ==
    LET turn == broadcastTurn(connections, closing, order, present, index, id)
        shareInfo == cleanupShareCode(share[thisRoom], now)
    IN /\ currentTurnIndex' = turn.index
       /\ currentTurnId' = turn.id
       /\ connections' = broadcastConnections(connections, closing)
       /\ share' = [share EXCEPT ![thisRoom] = shareInfo]
       /\ sent' = broadcastState(connections, closing, question, shareInfo, turn.id)
       /\ UNCHANGED <<now, ticks, replaced>>

\* ---------------------------------------------------------- createRoom
\* store.ts createRoom up to its await: the loop has left it with a code that
\* this.rooms does not hold, and the category preload is outstanding
CreateStart(k, code) ==
    /\ creating[k] = NoCode
    /\ returned[k] = NoCode
    /\ created[code] = NoCreate
    /\ creating' = [creating EXCEPT ![k] = code]
    /\ lastOp' = Op("createRoom", "fetching")
    /\ Silent
    /\ UNCHANGED <<roomVars, nextPlayer, pending, nextConn, closing, histVars,
                   created, returned, recreating, bornAt, fetchVars>>

\* store.ts createRoom from its await on: whether the preload returned or
\* threw, the room is set in this.rooms under its code and returned
CreateResume(k) ==
    /\ creating[k] # NoCode
    /\ created' = [created EXCEPT ![creating[k]] = k]
    /\ returned' = [returned EXCEPT ![k] = creating[k]]
    /\ creating' = [creating EXCEPT ![k] = NoCode]
    /\ lastOp' = Op("createRoom", "ok")
    /\ Silent
    /\ UNCHANGED <<roomVars, nextPlayer, pending, nextConn, closing, histVars,
                   recreating, bornAt, fetchVars>>

\* store.ts createRoom up to its await, when generateRoomCode draws the code of
\* the room modelled in full: the loop lets it through once this.rooms no
\* longer holds that code
RecreateStart ==
    /\ ~registered
    /\ ~recreating
    /\ pending = <<>>
    /\ recreating' = TRUE
    /\ lastOp' = Op("createRoom", "fetching")
    /\ Silent
    /\ UNCHANGED <<roomVars, nextPlayer, pending, nextConn, closing, histVars,
                   creating, created, returned, bornAt, fetchVars>>

\* store.ts createRoom from its await on: a new room, with no player, no
\* connection and no share code, is set in this.rooms under the code. The
\* sockets of the room that held the code before keep their close events, and
\* hostSecret from here on stands for the secret of the new room.
RecreateResume ==
    /\ recreating
    /\ recreating' = FALSE
    /\ bornAt' = nextConn
    /\ registered' = TRUE
    /\ players' = {}
    /\ score' = [p \in PlayerIds |-> 0]
    /\ buzzedAt' = {}
    /\ turnOrder' = <<>>
    /\ currentTurnIndex' = NullIndex
    /\ currentTurnId' = NoPlayer
    /\ activeQuestion' = NoQuestion
    /\ questionActive' = FALSE
    /\ buzzedBy' = NoPlayer
    /\ lastResult' = NoResult
    /\ usedQuestions' = {}
    /\ usedCategorySlots' = {}
    /\ connections' = {}
    /\ totalAwarded' = 0
    /\ leftWith' = 0
    /\ everActivated' = [k \in SlotKeys |-> 0]
    /\ buzzWins' = 0
    /\ share' = [share EXCEPT ![thisRoom] = NoShare]
    /\ lastOp' = Op("createRoom", "ok")
    /\ sent' = {}
    /\ UNCHANGED <<nextPlayer, pending, nextConn, closing, now, ticks, replaced,
                   creating, created, returned, fetchVars>>

\* ------------------------------------------------- fetchTriviaQuestion
\* triviaApi.ts fetchFallbackQuestion: the errors it throws, which are the
\* errors fetchTriviaQuestion ends in
NoFallbackAvailable == "No fallback trivia questions available"
FallbackExhausted == "Fallback trivia exhausted for given criteria"
FetchErrors == {NoFallbackAvailable, FallbackExhausted}

\* triviaApi.ts fetchTriviaQuestion: the number of passes its loop makes
MaxAttempts == 3

\* triviaApi.ts httpGet for /questions: the request throws (the fetch rejects
\* or the status is not ok), or resolves to an empty list, or to a question
UpstreamReplies ==
    {[kind |-> "error", id |-> NoQuestionId], [kind |-> "empty", id |-> NoQuestionId]}
        \cup {[kind |-> "question", id |-> i] : i \in QuestionIds}

\* triviaApi.ts fetchTriviaQuestion is called with options.excludeIds, while
\* the fallback file is loaded or not and holds the questions `fallbackIds`
\* in the buckets the options select
fetchTriviaQuestion(excludeIds, loaded, fallbackIds) ==
    /\ fetch.stage \in {"idle", "returned", "threw"}
    /\ loaded \/ fallbackIds = {}
    /\ fetch' = [NoFetch EXCEPT !.stage = "upstream", !.excludeIds = excludeIds,
                                !.loaded = loaded, !.fallback = fallbackIds]
    /\ Silent
    /\ UNCHANGED <<roomVars, nextPlayer, pending, nextConn, closing, lastOp,
                   histVars, createVars>>

\* triviaApi.ts fetchTriviaQuestion lines 164-185: one pass of the loop, from
\* the answer to `await httpGet`.  A request that throws leaves the loop; an
\* empty list or a question whose id is in excludeIds goes on to the next
\* pass while attempt < 3; any other question is returned.
httpReply(reply) ==
    /\ fetch.stage = "upstream"
    /\ LET repeated == \/ reply.kind = "empty"
                       \/ reply.kind = "question" /\ reply.id \in fetch.excludeIds
           attempt == fetch.attempt + 1
       IN fetch' =
              IF reply.kind = "error"
              THEN [fetch EXCEPT !.replies = Append(@, reply),
                                 !.stage = "fallback"]
              ELSE IF repeated
              THEN [fetch EXCEPT !.replies = Append(@, reply),
                                 !.attempt = attempt,
                                 !.stage = IF attempt < MaxAttempts
                                           THEN "upstream" ELSE "fallback"]
              ELSE [fetch EXCEPT !.replies = Append(@, reply),
                                 !.stage = "returned",
                                 !.source = "upstream",
                                 !.result = reply.id]
    /\ Silent
    /\ UNCHANGED <<roomVars, nextPlayer, pending, nextConn, closing, lastOp,
                   histVars, createVars>>

\* triviaApi.ts fetchFallbackQuestion line 142: questions.filter(q =>
\* !excludeIds.has(q.id)) over the buckets the options select
FallbackCandidates(ids, excludeIds) == ids \ excludeIds

\* triviaApi.ts fetchFallbackQuestion, which fetchTriviaQuestion returns once
\* its loop is left without a question
fetchFallbackQuestion ==
    /\ fetch.stage = "fallback"
    /\ LET filtered == FallbackCandidates(fetch.fallback, fetch.excludeIds)
       IN IF ~fetch.loaded
          THEN fetch' = [fetch EXCEPT !.stage = "threw", !.error = NoFallbackAvailable]
          ELSE IF filtered = {}
          THEN fetch' = [fetch EXCEPT !.stage = "threw", !.error = FallbackExhausted]
          ELSE \E chosen \in filtered :
                   fetch' = [fetch EXCEPT !.stage = "returned",
                                          !.source = "fallback",
                                          !.result = chosen]
    /\ Silent
    /\ UNCHANGED <<roomVars, nextPlayer, pending, nextConn, closing, lastOp,
                   histVars, createVars>>

\* ------------------------------------------------------------ joinRoom
joinRoom ==
    /\ nextPlayer \in PlayerIds
    /\ IF ~registered THEN Fails("join", "Room not found")
       ELSE LET id == nextPlayer
                isFirst == currentTurnIndex = NullIndex
            IN /\ nextPlayer' = nextPlayer + 1
               /\ players' = players \cup {id}
               /\ score' = [score EXCEPT ![id] = 0]
               /\ turnOrder' = Append(turnOrder, id)
               /\ Broadcast(activeQuestion, Append(turnOrder, id), players \cup {id},
                            IF isFirst THEN 0 ELSE currentTurnIndex,
                            IF isFirst THEN id ELSE currentTurnId)
               /\ lastOp' = Op("join", "ok")
               /\ UNCHANGED <<registered, buzzedAt, activeQuestion, questionActive,
                              buzzedBy, lastResult, usedQuestions, usedCategorySlots,
                              pending, nextConn, closing, histVars, createVars, fetchVars>>

\* ------------------------------------------------------ setCurrentTurn
setCurrentTurn(secret, playerId) ==
    IF verifyHost(secret) # "ok" THEN Fails("setTurn", verifyHost(secret))
    ELSE IF playerId \notin players THEN Fails("setTurn", "Player not found")
    ELSE LET index == IndexOf(turnOrder, playerId)
         IN /\ Broadcast(activeQuestion, turnOrder, players,
                         IF index >= 0 THEN index ELSE currentTurnIndex, playerId)
            /\ lastOp' = Op("setTurn", "ok")
            /\ UNCHANGED <<registered, players, score, buzzedAt, turnOrder,
                           activeQuestion, questionActive, buzzedBy, lastResult,
                           usedQuestions, usedCategorySlots, nextPlayer, createVars, fetchVars, pending,
                           nextConn, closing, histVars>>

\* ---------------------------------------------------- activateQuestion
\* store.ts activateQuestion up to its await: verifyHost, the activeQuestion
\* check and the resolution of the player on turn.  getCurrentTurnPlayerId has
\* written the turn pair before "Set a player on turn" is thrown.
ActivateStart(secret, category, difficulty) ==
    IF verifyHost(secret) # "ok" THEN Fails("activate", verifyHost(secret))
    ELSE IF activeQuestion.present THEN Fails("activate", "Question already in play")
    ELSE LET turn == getCurrentTurnPlayerId(turnOrder, players,
                                            currentTurnIndex, currentTurnId)
             assignedTo == turn.id
         IN /\ currentTurnIndex' = turn.index
            /\ currentTurnId' = turn.id
            /\ IF assignedTo = NoPlayer
               THEN /\ lastOp' = Op("activate", "Set a player on turn before activating a question")
                    /\ UNCHANGED pending
               ELSE /\ pending' = Append(pending, [assignedTo |-> assignedTo,
                                                   category |-> category,
                                                   turnIdBefore |-> currentTurnId])
                    /\ lastOp' = Op("activate", "fetching")
            /\ Silent
            /\ UNCHANGED <<registered, players, score, buzzedAt, turnOrder,
                           activeQuestion, questionActive, buzzedBy, lastResult,
                           usedQuestions, usedCategorySlots, connections,
                           nextPlayer, createVars, fetchVars, nextConn, closing, histVars>>

\* triviaApi.ts fetchTriviaQuestion: the questions a fetch may resolve to.  The
\* id is outside excludeIds (room.usedQuestions, read when the answer arrives);
\* category and difficulty are the provider's.
FetchResults ==
    {[id |-> i, category |-> c, difficulty |-> d,
      correctAnswer |-> <<"answer", i>>,
      incorrectAnswers |-> {<<"wrong", i>>}] :
         i \in QuestionIds \ usedQuestions, c \in ProviderCategories, d \in Difficulties}

\* the slot check is skipped
SlotTaken_NeverChecked(key, used) == FALSE

\* store.ts activateQuestion line 193: room.usedCategorySlots.has(slotKey)
SlotTaken(key, used) == key \in used

\* store.ts activateQuestion after the await, lines 185-231
ActivateResume(i, question) ==
    /\ i \in 1..Len(pending)
    /\ question \in FetchResults
    /\ pending' = Splice(pending, i - 1)
    /\ LET call == pending[i]
           slotCategory == IF call.category # NoCategory THEN call.category
                           ELSE question.category
           key == slotKey(slotCategory, question.difficulty)
           active == [present |-> TRUE, id |-> question.id,
                      stage |-> "awaitingHostDecision",
                      assignedTo |-> call.assignedTo,
                      answeringPlayerId |-> call.assignedTo,
                      attemptedPlayerIds |-> {call.assignedTo},
                      turnIndex |-> currentTurnIndex,
                      category |-> slotCategory,
                      difficulty |-> question.difficulty,
                      points |-> pointsForDifficulty(question.difficulty),
                      correctAnswer |-> question.correctAnswer,
                      choices |-> question.incorrectAnswers \cup {question.correctAnswer}]
       IN IF SlotTaken(key, usedCategorySlots)
          THEN /\ lastOp' = Op("activate", "That category and difficulty have already been played")
               /\ Silent
               /\ UNCHANGED <<roomVars, nextPlayer, createVars, fetchVars, nextConn, closing, histVars>>
          ELSE /\ activeQuestion' = active
               /\ usedCategorySlots' = usedCategorySlots \cup {key}
               /\ lastResult' = NoResult
               /\ questionActive' = FALSE
               /\ buzzedBy' = NoPlayer
               /\ buzzedAt' = {}
               /\ Broadcast(active, turnOrder, players, currentTurnIndex, currentTurnId)
               /\ lastOp' = Op("activate", "ok")
               /\ everActivated' = [everActivated EXCEPT ![key] = @ + 1]
               /\ UNCHANGED <<registered, players, score, turnOrder, usedQuestions,
                              nextPlayer, createVars, fetchVars, nextConn, closing,
                              totalAwarded, leftWith, buzzWins>>

\* a failed fetch forgets the player on turn
ActivateFetchFail_ClearsTurn(i) ==
    /\ i \in 1..Len(pending)
    /\ pending' = Splice(pending, i - 1)
    /\ \E error \in FetchErrors : lastOp' = Op("activate", error)
    /\ currentTurnId' = NoPlayer
    /\ Silent
    /\ UNCHANGED <<registered, players, score, buzzedAt, turnOrder,
                   currentTurnIndex, activeQuestion, questionActive, buzzedBy,
                   lastResult, usedQuestions, usedCategorySlots, connections,
                   nextPlayer, createVars, fetchVars, nextConn, closing, histVars>>

\* triviaApi.ts fetchTriviaQuestion / fetchFallbackQuestion throw: the await
\* rejects and activateQuestion ends without touching the room
ActivateFetchFail(i) ==
    /\ i \in 1..Len(pending)
    /\ pending' = Splice(pending, i - 1)
    /\ \E error \in FetchErrors : lastOp' = Op("activate", error)
    /\ Silent
    /\ UNCHANGED <<roomVars, nextPlayer, createVars, fetchVars, nextConn, closing, histVars>>

\* ----------------------------------------------- openQuestionToBuzzers
\* the answering player is not cleared when the buzzers open
Opened_KeepsAnswerer(question, attempted) ==
    [question EXCEPT
        !.attemptedPlayerIds =
            IF question.answeringPlayerId # NoPlayer
            THEN attempted \cup {question.answeringPlayerId}
            ELSE attempted,
        !.stage = "openForBuzz"]

\* store.ts openQuestionToBuzzers lines 246-252: the question once its buzzers
\* are open, `attempted` being the attemptedPlayerIds it starts from
Opened(question, attempted) ==
    [question EXCEPT
        !.attemptedPlayerIds =
            IF question.answeringPlayerId # NoPlayer
            THEN attempted \cup {question.answeringPlayerId}
            ELSE attempted,
        !.answeringPlayerId = NoPlayer,
        !.stage = "openForBuzz"]

\* the buzz of the last round is left in the room
OpenBuzzers_KeepsBuzz(op, attempted) ==
    /\ activeQuestion' = Opened(activeQuestion, attempted)
    /\ questionActive' = TRUE
    /\ Broadcast(Opened(activeQuestion, attempted), turnOrder, players,
                 currentTurnIndex, currentTurnId)
    /\ lastOp' = Op(op, "ok")
    /\ buzzWins' = 0
    /\ UNCHANGED <<registered, players, score, turnOrder, lastResult, buzzedBy,
                   buzzedAt, usedQuestions, usedCategorySlots, nextPlayer,
                   createVars, fetchVars, pending, nextConn, closing, totalAwarded, leftWith,
                   everActivated>>

\* store.ts openQuestionToBuzzers lines 246-257, on an active question whose
\* attemptedPlayerIds are `attempted`
OpenBuzzers(op, attempted) ==
    /\ activeQuestion' = Opened(activeQuestion, attempted)
    /\ questionActive' = TRUE
    /\ buzzedBy' = NoPlayer
    /\ buzzedAt' = {}
    /\ Broadcast(Opened(activeQuestion, attempted), turnOrder, players,
                 currentTurnIndex, currentTurnId)
    /\ lastOp' = Op(op, "ok")
    /\ buzzWins' = 0
    /\ UNCHANGED <<registered, players, score, turnOrder, lastResult,
                   usedQuestions, usedCategorySlots, nextPlayer, createVars, fetchVars, pending,
                   nextConn, closing, totalAwarded, leftWith,
                   everActivated>>

openQuestionToBuzzers(secret) ==
    IF verifyHost(secret) # "ok" THEN Fails("openBuzzers", verifyHost(secret))
    ELSE IF ~activeQuestion.present THEN Fails("openBuzzers", "No active question")
    ELSE IF activeQuestion.stage # "awaitingHostDecision"
    THEN Fails("openBuzzers", "Buzzers already open")
    ELSE OpenBuzzers("openBuzzers", activeQuestion.attemptedPlayerIds)

\* ------------------------------------------------------ finishQuestion
\* the turn advances from the live currentTurnIndex, not from the captured one
finishQuestion_FromLiveIndex ==
    LET turn == advanceTurn(turnOrder, players, currentTurnIndex, currentTurnIndex)
    IN /\ activeQuestion' = NoQuestion
       /\ questionActive' = FALSE
       /\ buzzedBy' = NoPlayer
       /\ buzzedAt' = {}
       /\ Broadcast(NoQuestion, turnOrder, players, turn.index, turn.id)

\* store.ts finishQuestion: clears the question and advances the turn from the
\* turn index captured at activation
finishQuestion ==
    LET turnIndex == IF activeQuestion.present /\ activeQuestion.turnIndex # NullIndex
                     THEN activeQuestion.turnIndex ELSE currentTurnIndex
        turn == advanceTurn(turnOrder, players, currentTurnIndex, turnIndex)
    IN /\ activeQuestion' = NoQuestion
       /\ questionActive' = FALSE
       /\ buzzedBy' = NoPlayer
       /\ buzzedAt' = {}
       /\ Broadcast(NoQuestion, turnOrder, players, turn.index, turn.id)

\* --------------------------------------------------- markAnswerCorrect
\* the id of the finished question is not recorded
addUsed_Forgets(used, id) == used

\* store.ts markAnswerCorrect / markAnswerIncorrect: room.usedQuestions.add(active.id)
addUsed(used, id) == used \cup {id}

\* the score is overwritten instead of increased
Award_Overwrites(scores, playerId, points) == [scores EXCEPT ![playerId] = points]

\* store.ts markAnswerCorrect line 279: player.score += active.points
Award(scores, playerId, points) == [scores EXCEPT ![playerId] = @ + points]

\* the answering player is awarded whatever player the host names
markAnswerCorrect_AwardsAnswerer(secret, playerId) ==
    IF verifyHost(secret) # "ok" THEN Fails("markCorrect", verifyHost(secret))
    ELSE IF ~activeQuestion.present THEN Fails("markCorrect", "No active question")
    ELSE LET awardedPlayerId == IF activeQuestion.answeringPlayerId # NoPlayer
                                THEN activeQuestion.answeringPlayerId
                                ELSE playerId
         IN IF awardedPlayerId = NoPlayer
            THEN Fails("markCorrect", "No answering player to award points")
            ELSE IF awardedPlayerId \notin players
            THEN Fails("markCorrect", "Player not found")
            ELSE /\ score' = Award(score, awardedPlayerId, activeQuestion.points)
                 /\ usedQuestions' = addUsed(usedQuestions, activeQuestion.id)
                 /\ lastResult' =
                        [present |-> TRUE, id |-> activeQuestion.id,
                         answeredCorrectly |-> TRUE,
                         answeredBy |-> awardedPlayerId,
                         assignedTo |-> activeQuestion.assignedTo,
                         pointsAwarded |-> activeQuestion.points]
                 /\ finishQuestion
                 /\ lastOp' = Op("markCorrect", "ok")
                 /\ totalAwarded' = totalAwarded + activeQuestion.points
                 /\ UNCHANGED <<registered, players, turnOrder, usedCategorySlots,
                                nextPlayer, createVars, fetchVars, pending, nextConn, closing,
                                leftWith, everActivated, buzzWins>>

\* store.ts markAnswerCorrect
markAnswerCorrect(secret, playerId) ==
    IF verifyHost(secret) # "ok" THEN Fails("markCorrect", verifyHost(secret))
    ELSE IF ~activeQuestion.present THEN Fails("markCorrect", "No active question")
    ELSE LET awardedPlayerId == IF playerId # NoPlayer THEN playerId
                                ELSE activeQuestion.answeringPlayerId
         IN IF awardedPlayerId = NoPlayer
            THEN Fails("markCorrect", "No answering player to award points")
            ELSE IF awardedPlayerId \notin players
            THEN Fails("markCorrect", "Player not found")
            ELSE /\ score' = Award(score, awardedPlayerId, activeQuestion.points)
                 /\ usedQuestions' = addUsed(usedQuestions, activeQuestion.id)
                 /\ lastResult' =
                        [present |-> TRUE, id |-> activeQuestion.id,
                         answeredCorrectly |-> TRUE,
                         answeredBy |-> awardedPlayerId,
                         assignedTo |-> activeQuestion.assignedTo,
                         pointsAwarded |-> activeQuestion.points]
                 /\ finishQuestion
                 /\ lastOp' = Op("markCorrect", "ok")
                 /\ totalAwarded' = totalAwarded + activeQuestion.points
                 /\ UNCHANGED <<registered, players, turnOrder, usedCategorySlots,
                                nextPlayer, createVars, fetchVars, pending, nextConn, closing,
                                leftWith, everActivated, buzzWins>>

\* ------------------------------------------------- markAnswerIncorrect
\* the question is finished whether or not the host asked for the buzzers
markAnswerIncorrect_AlwaysFinishes(secret, openBuzzers) ==
    IF verifyHost(secret) # "ok" THEN Fails("markIncorrect", verifyHost(secret))
    ELSE IF ~activeQuestion.present THEN Fails("markIncorrect", "No active question")
    ELSE LET answeringId == activeQuestion.answeringPlayerId
             attempted == IF answeringId # NoPlayer
                          THEN activeQuestion.attemptedPlayerIds \cup {answeringId}
                          ELSE activeQuestion.attemptedPlayerIds
         IN IF openBuzzers /\ FALSE
            THEN IF activeQuestion.stage # "awaitingHostDecision"
                 THEN \* openQuestionToBuzzers throws; answeringId is null in
                      \* this stage unless the answerer was never cleared, so
                      \* the add above is what the question keeps
                      /\ activeQuestion' = [activeQuestion EXCEPT !.attemptedPlayerIds = attempted]
                      /\ lastOp' = Op("markIncorrect", "Buzzers already open")
                      /\ Silent
                      /\ UNCHANGED <<registered, players, score, buzzedAt, turnOrder,
                                     currentTurnIndex, currentTurnId, questionActive,
                                     buzzedBy, lastResult, usedQuestions,
                                     usedCategorySlots, connections, nextPlayer, createVars, fetchVars,
                                     pending, nextConn, closing, histVars>>
                 ELSE OpenBuzzers("markIncorrect", attempted)
            ELSE /\ usedQuestions' = addUsed(usedQuestions, activeQuestion.id)
                 /\ lastResult' =
                        [present |-> TRUE, id |-> activeQuestion.id,
                         answeredCorrectly |-> FALSE,
                         answeredBy |-> answeringId,
                         assignedTo |-> activeQuestion.assignedTo,
                         pointsAwarded |-> 0]
                 /\ finishQuestion
                 /\ lastOp' = Op("markIncorrect", "ok")
                 /\ UNCHANGED <<registered, players, score, turnOrder,
                                usedCategorySlots, nextPlayer, createVars, fetchVars, pending, nextConn, closing, histVars>>

\* store.ts markAnswerIncorrect
\* a question nobody is answering cannot be closed as incorrect
markAnswerIncorrect_NeedsAnswerer(secret, openBuzzers) ==
    IF verifyHost(secret) # "ok" THEN Fails("markIncorrect", verifyHost(secret))
    ELSE IF ~activeQuestion.present THEN Fails("markIncorrect", "No active question")
    ELSE IF ~openBuzzers /\ activeQuestion.answeringPlayerId = NoPlayer
    THEN Fails("markIncorrect", "No answering player")
    ELSE LET answeringId == activeQuestion.answeringPlayerId
             attempted == IF answeringId # NoPlayer
                          THEN activeQuestion.attemptedPlayerIds \cup {answeringId}
                          ELSE activeQuestion.attemptedPlayerIds
         IN IF openBuzzers
            THEN IF activeQuestion.stage # "awaitingHostDecision"
                 THEN \* openQuestionToBuzzers throws; answeringId is null in
                      \* this stage unless the answerer was never cleared, so
                      \* the add above is what the question keeps
                      /\ activeQuestion' = [activeQuestion EXCEPT !.attemptedPlayerIds = attempted]
                      /\ lastOp' = Op("markIncorrect", "Buzzers already open")
                      /\ Silent
                      /\ UNCHANGED <<registered, players, score, buzzedAt, turnOrder,
                                     currentTurnIndex, currentTurnId, questionActive,
                                     buzzedBy, lastResult, usedQuestions,
                                     usedCategorySlots, connections, nextPlayer, createVars, fetchVars,
                                     pending, nextConn, closing, histVars>>
                 ELSE OpenBuzzers("markIncorrect", attempted)
            ELSE /\ usedQuestions' = addUsed(usedQuestions, activeQuestion.id)
                 /\ lastResult' =
                        [present |-> TRUE, id |-> activeQuestion.id,
                         answeredCorrectly |-> FALSE,
                         answeredBy |-> answeringId,
                         assignedTo |-> activeQuestion.assignedTo,
                         pointsAwarded |-> 0]
                 /\ finishQuestion
                 /\ lastOp' = Op("markIncorrect", "ok")
                 /\ UNCHANGED <<registered, players, score, turnOrder,
                                usedCategorySlots, nextPlayer, createVars, fetchVars, pending, nextConn, closing, histVars>>

\* store.ts markAnswerIncorrect
markAnswerIncorrect(secret, openBuzzers) ==
    IF verifyHost(secret) # "ok" THEN Fails("markIncorrect", verifyHost(secret))
    ELSE IF ~activeQuestion.present THEN Fails("markIncorrect", "No active question")
    ELSE LET answeringId == activeQuestion.answeringPlayerId
             attempted == IF answeringId # NoPlayer
                          THEN activeQuestion.attemptedPlayerIds \cup {answeringId}
                          ELSE activeQuestion.attemptedPlayerIds
         IN IF openBuzzers
            THEN IF activeQuestion.stage # "awaitingHostDecision"
                 THEN \* openQuestionToBuzzers throws; answeringId is null in
                      \* this stage unless the answerer was never cleared, so
                      \* the add above is what the question keeps
                      /\ activeQuestion' = [activeQuestion EXCEPT !.attemptedPlayerIds = attempted]
                      /\ lastOp' = Op("markIncorrect", "Buzzers already open")
                      /\ Silent
                      /\ UNCHANGED <<registered, players, score, buzzedAt, turnOrder,
                                     currentTurnIndex, currentTurnId, questionActive,
                                     buzzedBy, lastResult, usedQuestions,
                                     usedCategorySlots, connections, nextPlayer, createVars, fetchVars,
                                     pending, nextConn, closing, histVars>>
                 ELSE OpenBuzzers("markIncorrect", attempted)
            ELSE /\ usedQuestions' = addUsed(usedQuestions, activeQuestion.id)
                 /\ lastResult' =
                        [present |-> TRUE, id |-> activeQuestion.id,
                         answeredCorrectly |-> FALSE,
                         answeredBy |-> answeringId,
                         assignedTo |-> activeQuestion.assignedTo,
                         pointsAwarded |-> 0]
                 /\ finishQuestion
                 /\ lastOp' = Op("markIncorrect", "ok")
                 /\ UNCHANGED <<registered, players, score, turnOrder,
                                usedCategorySlots, nextPlayer, createVars, fetchVars, pending, nextConn, closing, histVars>>

\* ------------------------------------------------ cancelActiveQuestion
\* the cancelled question gives its slot back
cancelActiveQuestion_ReleasesSlot(secret) ==
    IF verifyHost(secret) # "ok" THEN Fails("cancel", verifyHost(secret))
    ELSE IF ~activeQuestion.present
    THEN /\ lastOp' = Op("cancel", "ok")
         /\ Silent
         /\ UNCHANGED <<roomVars, nextPlayer, createVars, fetchVars, pending, nextConn, closing, histVars>>
    ELSE /\ activeQuestion' = NoQuestion
         /\ questionActive' = FALSE
         /\ buzzedBy' = NoPlayer
         /\ buzzedAt' = {}
         /\ usedCategorySlots' = usedCategorySlots \
                {slotKey(activeQuestion.category, activeQuestion.difficulty)}
         /\ Broadcast(NoQuestion, turnOrder, players, currentTurnIndex, currentTurnId)
         /\ lastOp' = Op("cancel", "ok")
         /\ UNCHANGED <<registered, players, score, turnOrder, lastResult,
                        usedQuestions, nextPlayer, createVars, fetchVars, pending,
                        nextConn, closing, histVars>>

\* the buzz that was being judged is left in the room
cancelActiveQuestion_KeepsBuzz(secret) ==
    IF verifyHost(secret) # "ok" THEN Fails("cancel", verifyHost(secret))
    ELSE IF ~activeQuestion.present
    THEN /\ lastOp' = Op("cancel", "ok")
         /\ Silent
         /\ UNCHANGED <<roomVars, nextPlayer, createVars, fetchVars, pending, nextConn, closing, histVars>>
    ELSE /\ activeQuestion' = NoQuestion
         /\ questionActive' = FALSE
         /\ Broadcast(NoQuestion, turnOrder, players, currentTurnIndex, currentTurnId)
         /\ lastOp' = Op("cancel", "ok")
         /\ UNCHANGED <<registered, players, score, turnOrder, lastResult, buzzedBy,
                        buzzedAt, usedQuestions, usedCategorySlots, nextPlayer,
                        createVars, fetchVars, pending, nextConn, closing, histVars>>

\* store.ts cancelActiveQuestion
cancelActiveQuestion(secret) ==
    IF verifyHost(secret) # "ok" THEN Fails("cancel", verifyHost(secret))
    ELSE IF ~activeQuestion.present
    THEN /\ lastOp' = Op("cancel", "ok")
         /\ Silent
         /\ UNCHANGED <<roomVars, nextPlayer, createVars, fetchVars, pending, nextConn, closing, histVars>>
    ELSE /\ activeQuestion' = NoQuestion
         /\ questionActive' = FALSE
         /\ buzzedBy' = NoPlayer
         /\ buzzedAt' = {}
         /\ Broadcast(NoQuestion, turnOrder, players, currentTurnIndex, currentTurnId)
         /\ lastOp' = Op("cancel", "ok")
         /\ UNCHANGED <<registered, players, score, turnOrder, lastResult,
                        usedQuestions, usedCategorySlots, nextPlayer, createVars, fetchVars, pending,
                        nextConn, closing, histVars>>

\* ---------------------------------------------------------- handleBuzz
\* the buzz is recorded but the stage is left openForBuzz
Buzzed_StageLeftOpen(question, playerId) ==
    [question EXCEPT
        !.answeringPlayerId = playerId,
        !.attemptedPlayerIds = @ \cup {playerId}]

\* store.ts handleBuzz lines 377-379: the question once playerId has buzzed in
Buzzed(question, playerId) ==
    [question EXCEPT
        !.answeringPlayerId = playerId,
        !.attemptedPlayerIds = @ \cup {playerId},
        !.stage = "awaitingHostDecision"]

\* the attempted players are looked up before the stage
handleBuzz_AttemptedFirst(playerId) ==
    IF ~registered THEN Fails("buzz", "Room not found")
    ELSE IF activeQuestion.present /\ playerId \in activeQuestion.attemptedPlayerIds
    THEN Fails("buzz", "You already attempted this question")
    ELSE IF ~activeQuestion.present \/ activeQuestion.stage # "openForBuzz"
    THEN Fails("buzz", "Buzz not available now")
    ELSE IF playerId \notin players THEN Fails("buzz", "Player not found")
    ELSE /\ buzzedBy' = playerId
         /\ questionActive' = FALSE
         /\ buzzedAt' = buzzedAt \cup {playerId}
         /\ activeQuestion' = Buzzed(activeQuestion, playerId)
         /\ Broadcast(Buzzed(activeQuestion, playerId), turnOrder, players,
                      currentTurnIndex, currentTurnId)
         /\ lastOp' = Op("buzz", "ok")
         /\ buzzWins' = buzzWins + 1
         /\ UNCHANGED <<registered, players, score, turnOrder, lastResult,
                        usedQuestions, usedCategorySlots, nextPlayer, createVars, fetchVars, pending,
                        nextConn, closing, totalAwarded, leftWith,
                        everActivated>>

\* store.ts handleBuzz: the stage, then the attempted players, then the player
handleBuzz(playerId) ==
    IF ~registered THEN Fails("buzz", "Room not found")
    ELSE IF ~activeQuestion.present \/ activeQuestion.stage # "openForBuzz"
    THEN Fails("buzz", "Buzz not available now")
    ELSE IF playerId \in activeQuestion.attemptedPlayerIds
    THEN Fails("buzz", "You already attempted this question")
    ELSE IF playerId \notin players THEN Fails("buzz", "Player not found")
    ELSE /\ buzzedBy' = playerId
         /\ questionActive' = FALSE
         /\ buzzedAt' = buzzedAt \cup {playerId}
         /\ activeQuestion' = Buzzed(activeQuestion, playerId)
         /\ Broadcast(Buzzed(activeQuestion, playerId), turnOrder, players,
                      currentTurnIndex, currentTurnId)
         /\ lastOp' = Op("buzz", "ok")
         /\ buzzWins' = buzzWins + 1
         /\ UNCHANGED <<registered, players, score, turnOrder, lastResult,
                        usedQuestions, usedCategorySlots, nextPlayer, createVars, fetchVars, pending,
                        nextConn, closing, totalAwarded, leftWith,
                        everActivated>>

\* -------------------------------------------------------- removePlayer
\* the leaver stays the answering player of the active question
withoutPlayer_KeepsAnswerer(question, playerId) ==
    IF ~question.present THEN question
    ELSE [question EXCEPT
             !.attemptedPlayerIds = @ \ {playerId},
             !.assignedTo = IF @ = playerId THEN NoPlayer ELSE @]

\* store.ts removePlayer lines 514-524: the active question once the leaver is
\* taken out of attemptedPlayerIds, assignedTo and answeringPlayerId
withoutPlayer(question, playerId) ==
    IF ~question.present THEN question
    ELSE [question EXCEPT
             !.attemptedPlayerIds = @ \ {playerId},
             !.assignedTo = IF @ = playerId THEN NoPlayer ELSE @,
             !.answeringPlayerId = IF @ = playerId THEN NoPlayer ELSE @]

\* the turn index stays where it was when an earlier player leaves
removePlayer_KeepsIndex(playerId) ==
    IF ~registered THEN Fails("removePlayer", "Room not found")
    ELSE IF playerId \notin players THEN Fails("removePlayer", "Player not found")
    ELSE LET present == players \ {playerId}
             orderIndex == IndexOf(turnOrder, playerId)
             order == IF orderIndex # -1 THEN Splice(turnOrder, orderIndex) ELSE turnOrder
             decremented == currentTurnIndex
             index == IF orderIndex = -1 THEN currentTurnIndex
                      ELSE IF Len(order) = 0 THEN NullIndex
                      ELSE IF currentTurnIndex = NullIndex THEN NullIndex
                      ELSE IF decremented >= Len(order) THEN 0 ELSE decremented
             turnId == IF currentTurnId = playerId THEN NoPlayer ELSE currentTurnId
             wasAnswering == /\ activeQuestion.present
                             /\ activeQuestion.answeringPlayerId = playerId
             active == withoutPlayer(activeQuestion, playerId)
             awaiting == wasAnswering /\ activeQuestion.stage = "awaitingHostDecision"
             buzzed1 == IF awaiting THEN NoPlayer ELSE buzzedBy
             live1 == IF awaiting THEN FALSE ELSE questionActive
             buzzed == IF buzzed1 = playerId THEN NoPlayer ELSE buzzed1
             live == IF buzzed1 = playerId THEN FALSE ELSE live1
             result == IF ~lastResult.present THEN lastResult
                       ELSE [lastResult EXCEPT
                                !.answeredBy = IF @ = playerId THEN NoPlayer ELSE @,
                                !.assignedTo = IF @ = playerId THEN NoPlayer ELSE @]
             stale == {c \in connections : c.playerId = playerId}
             conns == connections \ stale
             closed == closing \cup {c.id : c \in stale}
             turn == broadcastTurn(conns, closed, order, present, index, turnId)
             shareInfo == cleanupShareCode(share[thisRoom], now)
         IN /\ players' = present
            /\ score' = [score EXCEPT ![playerId] = 0]
            /\ buzzedAt' = buzzedAt \ {playerId}
            /\ turnOrder' = order
            /\ activeQuestion' = active
            /\ questionActive' = live
            /\ buzzedBy' = buzzed
            /\ lastResult' = result
            /\ closing' = closed
            /\ IF present = {} /\ conns = {}
               THEN /\ registered' = FALSE
                    /\ connections' = conns
                    /\ currentTurnIndex' = index
                    /\ currentTurnId' = turnId
                    /\ Silent
               ELSE /\ registered' = registered
                    /\ connections' = broadcastConnections(conns, closed)
                    /\ currentTurnIndex' = turn.index
                    /\ currentTurnId' = turn.id
                    /\ share' = [share EXCEPT ![thisRoom] = shareInfo]
                    /\ sent' = broadcastState(conns, closed, active, shareInfo,
                                               turn.id)
                    /\ UNCHANGED <<now, ticks, replaced>>
            /\ lastOp' = Op("removePlayer", "ok")
            /\ leftWith' = leftWith + score[playerId]
            /\ UNCHANGED <<usedQuestions, usedCategorySlots, nextPlayer, createVars, fetchVars, pending,
                           nextConn, totalAwarded, everActivated, buzzWins>>

\* store.ts removePlayer
removePlayer(playerId) ==
    IF ~registered THEN Fails("removePlayer", "Room not found")
    ELSE IF playerId \notin players THEN Fails("removePlayer", "Player not found")
    ELSE LET present == players \ {playerId}
             orderIndex == IndexOf(turnOrder, playerId)
             order == IF orderIndex # -1 THEN Splice(turnOrder, orderIndex) ELSE turnOrder
             decremented == IF currentTurnIndex > orderIndex
                            THEN currentTurnIndex - 1 ELSE currentTurnIndex
             index == IF orderIndex = -1 THEN currentTurnIndex
                      ELSE IF Len(order) = 0 THEN NullIndex
                      ELSE IF currentTurnIndex = NullIndex THEN NullIndex
                      ELSE IF decremented >= Len(order) THEN 0 ELSE decremented
             turnId == IF currentTurnId = playerId THEN NoPlayer ELSE currentTurnId
             wasAnswering == /\ activeQuestion.present
                             /\ activeQuestion.answeringPlayerId = playerId
             active == withoutPlayer(activeQuestion, playerId)
             awaiting == wasAnswering /\ activeQuestion.stage = "awaitingHostDecision"
             buzzed1 == IF awaiting THEN NoPlayer ELSE buzzedBy
             live1 == IF awaiting THEN FALSE ELSE questionActive
             buzzed == IF buzzed1 = playerId THEN NoPlayer ELSE buzzed1
             live == IF buzzed1 = playerId THEN FALSE ELSE live1
             result == IF ~lastResult.present THEN lastResult
                       ELSE [lastResult EXCEPT
                                !.answeredBy = IF @ = playerId THEN NoPlayer ELSE @,
                                !.assignedTo = IF @ = playerId THEN NoPlayer ELSE @]
             stale == {c \in connections : c.playerId = playerId}
             conns == connections \ stale
             closed == closing \cup {c.id : c \in stale}
             turn == broadcastTurn(conns, closed, order, present, index, turnId)
             shareInfo == cleanupShareCode(share[thisRoom], now)
         IN /\ players' = present
            /\ score' = [score EXCEPT ![playerId] = 0]
            /\ buzzedAt' = buzzedAt \ {playerId}
            /\ turnOrder' = order
            /\ activeQuestion' = active
            /\ questionActive' = live
            /\ buzzedBy' = buzzed
            /\ lastResult' = result
            /\ closing' = closed
            /\ IF present = {} /\ conns = {}
               THEN /\ registered' = FALSE
                    /\ connections' = conns
                    /\ currentTurnIndex' = index
                    /\ currentTurnId' = turnId
                    /\ Silent
               ELSE /\ registered' = registered
                    /\ connections' = broadcastConnections(conns, closed)
                    /\ currentTurnIndex' = turn.index
                    /\ currentTurnId' = turn.id
                    /\ share' = [share EXCEPT ![thisRoom] = shareInfo]
                    /\ sent' = broadcastState(conns, closed, active, shareInfo,
                                               turn.id)
                    /\ UNCHANGED <<now, ticks, replaced>>
            /\ lastOp' = Op("removePlayer", "ok")
            /\ leftWith' = leftWith + score[playerId]
            /\ UNCHANGED <<usedQuestions, usedCategorySlots, nextPlayer, createVars, fetchVars, pending,
                           nextConn, totalAwarded, everActivated, buzzWins>>

\* -------------------------------------------------- websocket handler
\* index.ts handleRegister / completeRegistration with store.ts
\* registerConnection: the socket is added and sent buildSnapshot, which
\* resolves the turn
registerConnection(role, secret, playerId) ==
    /\ IF role = "host" /\ verifyHost(secret) # "ok"
       THEN Fails("register", IF verifyHost(secret) = "Room not found"
                              THEN "Session not found" ELSE "Invalid host secret")
       ELSE IF role = "player" /\ (~registered \/ playerId \notin players)
       THEN Fails("register", "Player not found")
       ELSE LET turn == getCurrentTurnPlayerId(turnOrder, players,
                                               currentTurnIndex, currentTurnId)
                shareInfo == getActiveShareInfo(share[thisRoom], now)
            IN /\ connections' = connections \cup
                      {[id |-> nextConn, role |-> role,
                        playerId |-> IF role = "player" THEN playerId ELSE NoPlayer]}
               /\ nextConn' = nextConn + 1
               /\ share' = [share EXCEPT ![thisRoom] = shareInfo]
               /\ sent' = {stateMessage(nextConn, role, turn.id, activeQuestion,
                                         shareInfo, optionsFor(role))}
               /\ UNCHANGED <<now, ticks, replaced>>
               /\ currentTurnIndex' = turn.index
               /\ currentTurnId' = turn.id
               /\ lastOp' = Op("register", "ok")
               /\ UNCHANGED <<registered, players, score, buzzedAt, turnOrder,
                              activeQuestion, questionActive, buzzedBy, lastResult,
                              usedQuestions, usedCategorySlots, nextPlayer, createVars, fetchVars,
                              pending, closing, histVars>>

\* index.ts: the sockets a message can arrive on.  Socket nextConn is connected
\* and has not registered (state.registered false); a socket below nextConn
\* has registered, and it is OPEN while the room still tracks it and its peer
\* has not gone away.
registeredSocket(id) == \E c \in OpenOf(connections, closing) : c.id = id

\* a registered socket registers again
wsRegister_Reregisters(id, role, secret, playerId) ==
    /\ id = nextConn \/ registeredSocket(id)
    /\ registerConnection(role, secret, playerId)

\* index.ts socket.on("message") for a register message: handleRegister
wsRegister(id, role, secret, playerId) ==
    /\ id = nextConn \/ registeredSocket(id)
    /\ IF registeredSocket(id)
       THEN Fails("register", "Already registered")
       ELSE registerConnection(role, secret, playerId)

\* index.ts socket.on("message") for a buzz message: handleBuzz after
\* ensurePlayerContext
wsBuzz(id) ==
    /\ id = nextConn \/ registeredSocket(id)
    /\ IF ~registeredSocket(id)
       THEN Fails("buzz", "Register before sending other messages")
       ELSE LET c == CHOOSE c \in connections : c.id = id
            IN IF c.role # "player" \/ c.playerId = NoPlayer
               THEN Fails("buzz", "Only players can buzz")
               ELSE handleBuzz(c.playerId)

\* a player whose socket goes away is taken out of the room
SocketCloses_DropsPlayer(id) ==
    /\ id \in 1..(nextConn - 1)
    /\ id \notin closing
    /\ \E c \in connections : c.id = id
    /\ closing' = closing \cup {id}
    /\ players' = players \ {c.playerId : c \in {d \in connections : d.id = id}}
    /\ Silent
    /\ UNCHANGED <<registered, score, buzzedAt, turnOrder, currentTurnIndex,
                   currentTurnId, activeQuestion, questionActive, buzzedBy,
                   lastResult, usedQuestions, usedCategorySlots, connections,
                   nextPlayer, createVars, fetchVars, pending, nextConn, lastOp, histVars>>

\* the peer goes away: the socket of a registered connection stops being OPEN;
\* its close event is delivered later
SocketCloses(id) ==
    /\ id \in 1..(nextConn - 1)
    /\ id \notin closing
    /\ \E c \in connections : c.id = id
    /\ closing' = closing \cup {id}
    /\ Silent
    /\ UNCHANGED <<roomVars, nextPlayer, createVars, fetchVars, pending, nextConn, lastOp, histVars>>

\* the registry keeps a room that has no player and no connection left
removeConnection_KeepsEmptyRoom(id) ==
    /\ id \in closing
    /\ closing' = closing \ {id}
    /\ Silent
    /\ IF ~registered
       THEN UNCHANGED <<roomVars, lastOp>>
       ELSE /\ connections' = {c \in connections : c.id # id}
            /\ lastOp' = Op("removeConnection", "ok")
            /\ UNCHANGED <<registered, players, score, buzzedAt, turnOrder,
                           currentTurnIndex, currentTurnId, activeQuestion,
                           questionActive, buzzedBy, lastResult, usedQuestions,
                           usedCategorySlots>>
    /\ UNCHANGED <<nextPlayer, createVars, fetchVars, pending, nextConn, histVars>>

\* index.ts socket.on("close") with store.ts removeConnection
removeConnection(id) ==
    /\ id \in closing
    /\ closing' = closing \ {id}
    /\ Silent
    /\ IF ~registered
       THEN UNCHANGED <<roomVars, lastOp>>
       ELSE LET conns == {c \in connections : c.id # id}
            IN /\ connections' = conns
               /\ registered' = ~(conns = {} /\ players = {})
               /\ lastOp' = Op("removeConnection", "ok")
               /\ UNCHANGED <<players, score, buzzedAt, turnOrder, currentTurnIndex,
                              currentTurnId, activeQuestion, questionActive, buzzedBy,
                              lastResult, usedQuestions, usedCategorySlots>>
    /\ UNCHANGED <<nextPlayer, createVars, fetchVars, pending, nextConn, histVars>>

\* --------------------------------------------------------- destroyRoom
\* the text of the frame destroyRoom sends
SessionClosed == "Session closed by host"

\* the sockets are told and closed but the room stays in this.rooms
destroyRoom_KeepsRoom(secret) ==
    IF verifyHost(secret) # "ok" THEN Fails("destroyRoom", verifyHost(secret))
    ELSE /\ registered' = registered
         /\ closing' = closing \cup {c.id : c \in connections}
         /\ lastOp' = Op("destroyRoom", "ok")
         /\ sent' = {errorMessage(c.id, c.role, SessionClosed) :
                         c \in OpenOf(connections, closing)}
         /\ UNCHANGED shareVars
         /\ UNCHANGED <<players, score, buzzedAt, turnOrder, currentTurnIndex,
                        currentTurnId, activeQuestion, questionActive, buzzedBy,
                        lastResult, usedQuestions, usedCategorySlots, connections,
                        nextPlayer, createVars, fetchVars, pending, nextConn, histVars>>

\* store.ts destroyRoom: the room leaves this.rooms, every connection whose
\* socket is OPEN is sent the error frame, and every socket is closed
destroyRoom(secret) ==
    IF verifyHost(secret) # "ok" THEN Fails("destroyRoom", verifyHost(secret))
    ELSE /\ registered' = FALSE
         /\ closing' = closing \cup {c.id : c \in connections}
         /\ lastOp' = Op("destroyRoom", "ok")
         /\ sent' = {errorMessage(c.id, c.role, SessionClosed) :
                         c \in OpenOf(connections, closing)}
         /\ UNCHANGED shareVars
         /\ UNCHANGED <<players, score, buzzedAt, turnOrder, currentTurnIndex,
                        currentTurnId, activeQuestion, questionActive, buzzedBy,
                        lastResult, usedQuestions, usedCategorySlots, connections,
                        nextPlayer, createVars, fetchVars, pending, nextConn, histVars>>

\* ------------------------------------------------------------ snapshot
\* store.ts snapshot, the unauthenticated read behind GET /api/session/:code
snapshot ==
    IF ~registered THEN Fails("snapshot", "Room not found")
    ELSE LET shareInfo == cleanupShareCode(share[thisRoom], now)
             turn == getCurrentTurnPlayerId(turnOrder, players,
                                            currentTurnIndex, currentTurnId)
         IN /\ share' = [share EXCEPT ![thisRoom] = shareInfo]
            /\ currentTurnIndex' = turn.index
            /\ currentTurnId' = turn.id
            /\ sent' = {stateMessage(NoConn, "anonymous", turn.id, activeQuestion,
                                      shareInfo, defaultOptions)}
            /\ lastOp' = Op("snapshot", "ok")
            /\ UNCHANGED <<registered, players, score, buzzedAt, turnOrder,
                           activeQuestion, questionActive, buzzedBy, lastResult,
                           usedQuestions, usedCategorySlots, connections,
                           nextPlayer, createVars, fetchVars, pending, nextConn, closing, histVars,
                           now, ticks, replaced>>

\* --------------------------------------------------------- share codes
\* the share fields of all rooms once cleanupShareCode has run on every room of
\* this.rooms
cleanupAll(s, t) ==
    [r \in RoomCodes |-> IF r \in rooms THEN cleanupShareCode(s[r], t) ELSE s[r]]

\* no code is ever found taken
shareCodeExists_NeverFound(s, shareCode) == FALSE

\* store.ts shareCodeExists, on share fields already cleaned up
shareCodeExists(s, shareCode) == \E r \in rooms : s[r].code = shareCode

\* the code the room holds is purged before the new one is drawn, expired or not
issueShareCode_PurgesFirst(code, secret) ==
    IF code \notin rooms THEN Fails("issueShareCode", "Room not found")
    ELSE IF secret # hostSecret THEN Fails("issueShareCode", "Forbidden")
    ELSE \E shareCode \in ShareCodes :
           LET cleaned == [cleanupAll(share, now) EXCEPT ![code] = NoShare]
               issued == [code |-> shareCode, issuedAt |-> now,
                          expiresAt |-> now + SHARE_CODE_TTL]
               turn == broadcastTurn(connections, closing, turnOrder, players,
                                     currentTurnIndex, currentTurnId)
           IN /\ ~shareCodeExists(cleaned, shareCode)
              /\ share' = [cleaned EXCEPT ![code] = issued]
              /\ replaced' = Replaces(code, share[code], now)
              /\ IF code = thisRoom
                 THEN /\ currentTurnIndex' = turn.index
                      /\ currentTurnId' = turn.id
                      /\ connections' = broadcastConnections(connections, closing)
                      /\ sent' = broadcastState(connections, closing,
                                                activeQuestion, issued, turn.id)
                 ELSE /\ sent' = {}
                      /\ UNCHANGED <<currentTurnIndex, currentTurnId, connections>>
              /\ lastOp' = Op("issueShareCode", "ok")
              /\ UNCHANGED <<registered, players, score, buzzedAt, turnOrder,
                             activeQuestion, questionActive, buzzedBy, lastResult,
                             usedQuestions, usedCategorySlots, nextPlayer, createVars, fetchVars,
                             pending, nextConn, closing, histVars, now, ticks>>

\* store.ts issueShareCode.  The loop ends with a generated code for which
\* shareCodeExists, having cleaned up every room, found no holder.
issueShareCode(code, secret) ==
    IF code \notin rooms THEN Fails("issueShareCode", "Room not found")
    ELSE IF secret # hostSecret THEN Fails("issueShareCode", "Forbidden")
    ELSE \E shareCode \in ShareCodes :
           LET cleaned == cleanupAll(share, now)
               issued == [code |-> shareCode, issuedAt |-> now,
                          expiresAt |-> now + SHARE_CODE_TTL]
               turn == broadcastTurn(connections, closing, turnOrder, players,
                                     currentTurnIndex, currentTurnId)
           IN /\ ~shareCodeExists(cleaned, shareCode)
              /\ share' = [cleaned EXCEPT ![code] = issued]
              /\ replaced' = Replaces(code, share[code], now)
              /\ IF code = thisRoom
                 THEN /\ currentTurnIndex' = turn.index
                      /\ currentTurnId' = turn.id
                      /\ connections' = broadcastConnections(connections, closing)
                      /\ sent' = broadcastState(connections, closing,
                                                activeQuestion, issued, turn.id)
                 ELSE /\ sent' = {}
                      /\ UNCHANGED <<currentTurnIndex, currentTurnId, connections>>
              /\ lastOp' = Op("issueShareCode", "ok")
              /\ UNCHANGED <<registered, players, score, buzzedAt, turnOrder,
                             activeQuestion, questionActive, buzzedBy, lastResult,
                             usedQuestions, usedCategorySlots, nextPlayer, createVars, fetchVars,
                             pending, nextConn, closing, histVars, now, ticks>>

\* the room gives its code up to the first claim
claimShareCode_Consumes(shareCode) ==
    IF shareCode \notin ShareCodes THEN Fails("claimShareCode", "Invalid share code")
    ELSE LET cleaned == cleanupAll(share, now)
             hits == {i \in 1..Len(roomOrder) :
                         /\ roomOrder[i] \in rooms
                         /\ cleaned[roomOrder[i]].code = shareCode}
             first == CHOOSE i \in hits : \A j \in hits : i <= j
         IN /\ IF hits = {}
               THEN /\ share' = cleaned
                    /\ lastOp' = Op("claimShareCode", "Share code not found")
               ELSE /\ share' = [r \in RoomCodes |->
                                    IF roomOrder[first] = r THEN NoShare
                                    ELSE IF \E i \in 1..first : roomOrder[i] = r
                                    THEN cleaned[r] ELSE share[r]]
                    /\ lastOp' = Op("claimShareCode", roomOrder[first])
            /\ sent' = {}
            /\ UNCHANGED <<roomVars, nextPlayer, createVars, fetchVars, pending, nextConn, closing,
                           histVars, now, ticks, replaced>>

\* store.ts claimShareCode: the rooms are cleaned up in the order of this.rooms
\* up to the first one that holds the code; the outcome is the code of that room
claimShareCode(shareCode) ==
    IF shareCode \notin ShareCodes THEN Fails("claimShareCode", "Invalid share code")
    ELSE LET cleaned == cleanupAll(share, now)
             hits == {i \in 1..Len(roomOrder) :
                         /\ roomOrder[i] \in rooms
                         /\ cleaned[roomOrder[i]].code = shareCode}
             first == CHOOSE i \in hits : \A j \in hits : i <= j
         IN /\ IF hits = {}
               THEN /\ share' = cleaned
                    /\ lastOp' = Op("claimShareCode", "Share code not found")
               ELSE /\ share' = [r \in RoomCodes |->
                                    IF \E i \in 1..first : roomOrder[i] = r
                                    THEN cleaned[r] ELSE share[r]]
                    /\ lastOp' = Op("claimShareCode", roomOrder[first])
            /\ sent' = {}
            /\ UNCHANGED <<roomVars, nextPlayer, createVars, fetchVars, pending, nextConn, closing,
                           histVars, now, ticks, replaced>>

\* store.ts listRooms: every room is cleaned up before it is summarised
listRooms ==
    /\ share' = cleanupAll(share, now)
    /\ sent' = {}
    /\ lastOp' = Op("listRooms", "ok")
    /\ UNCHANGED <<roomVars, nextPlayer, createVars, fetchVars, pending, nextConn, closing,
                   histVars, now, ticks, replaced>>

\* time passes between two operations
Tick(d) ==
    /\ now' = now + d
    /\ ticks' = ticks + 1
    /\ sent' = {}
    /\ UNCHANGED <<roomVars, nextPlayer, createVars, fetchVars, pending, nextConn, closing, lastOp,
                   histVars, share, replaced>>

\* ------------------------------------------------------ handleHostError
\* triviaApi.ts httpGet: the messages of the errors it throws, one per status
TriviaRequestFailures == {"Trivia API request failed with status 503"}

\* index.ts handleHostError: the reply to a host command that threw `message`:
\* the entry of errorMap, else 502 for a message that starts with "Trivia API
\* request failed", else 500
handleHostError(message) ==
    CASE message = "Room not found" ->
             [status |-> 404, body |-> "Session not found"]
      [] message = "Forbidden" ->
             [status |-> 403, body |-> "Invalid host secret"]
      [] message = "Player not found" ->
             [status |-> 404, body |-> "Player not found"]
      [] message = "Question already in play" ->
             [status |-> 409, body |-> "Question already in play"]
      [] message = "Invalid question" ->
             [status |-> 400, body |-> "Invalid question"]
      [] message = "No active question" ->
             [status |-> 409, body |-> "No active question"]
      [] message = "Buzzers already open" ->
             [status |-> 409, body |-> "Buzzers already open"]
      [] message = "Buzz not available now" ->
             [status |-> 409, body |-> "Buzz not available now"]
      [] message = "You already attempted this question" ->
             [status |-> 409, body |-> "Player already attempted"]
      [] message = "No answering player to award points" ->
             [status |-> 400, body |-> "No answering player"]
      [] message = "Set a player on turn before activating a question" ->
             [status |-> 409, body |-> "Set a player on turn before activating a question"]
      [] message = "Unable to fetch a unique trivia question" ->
             [status |-> 502, body |-> "Unable to fetch a unique trivia question right now"]
      [] message \in TriviaRequestFailures ->
             [status |-> 502, body |-> "Trivia provider is unavailable. Try again shortly."]
      [] OTHER ->
             [status |-> 500, body |-> "Unexpected error"]

\* ---------------------------------------------------------------- Next
\* the call returned normally
Returned == lastOp'.result = "ok"

\* Spec: the game of one room.  The host holds the secret, nobody is connected
\* over a websocket, and one activateQuestion is in flight at a time.
Next ==
    \/ nextPlayer <= MaxJoins /\ joinRoom /\ Returned
    \/ \E p \in PlayerIds : setCurrentTurn(hostSecret, p) /\ Returned
    \/ \E c \in Categories \cup {NoCategory}, d \in Difficulties \cup {NoDifficulty} :
          Len(pending) < 1 /\ ActivateStart(hostSecret, c, d)
    \/ \E q \in FetchResults : ActivateResume(1, q)
    \/ ActivateFetchFail(1)
    \/ openQuestionToBuzzers(hostSecret) /\ Returned
    \/ \E p \in PlayerIds \cup {NoPlayer} : markAnswerCorrect(hostSecret, p) /\ Returned
    \/ \E b \in BOOLEAN : markAnswerIncorrect(hostSecret, b) /\ Returned
    \/ cancelActiveQuestion(hostSecret) /\ Returned
    \/ \E p \in PlayerIds : handleBuzz(p)
    \/ \E p \in PlayerIds : removePlayer(p) /\ Returned

Spec == Init /\ [][Next]_vars

\* SpecOverlap: the same game with activateQuestion calls overlapping at the
\* question fetch.
NextOverlap ==
    \/ nextPlayer <= MaxOverlapJoins /\ joinRoom /\ Returned
    \/ \E p \in PlayerIds : setCurrentTurn(hostSecret, p) /\ Returned
    \/ \E c \in Categories \cup {NoCategory}, d \in Difficulties \cup {NoDifficulty} :
          Len(pending) < MaxPending /\ ActivateStart(hostSecret, c, d)
    \/ \E i \in 1..MaxPending, q \in FetchResults : ActivateResume(i, q)
    \/ \E i \in 1..MaxPending : ActivateFetchFail(i)
    \/ openQuestionToBuzzers(hostSecret) /\ Returned
    \/ \E p \in PlayerIds \cup {NoPlayer} : markAnswerCorrect(hostSecret, p) /\ Returned
    \/ \E b \in BOOLEAN : markAnswerIncorrect(hostSecret, b) /\ Returned
    \/ cancelActiveQuestion(hostSecret) /\ Returned
    \/ \E p \in PlayerIds : handleBuzz(p) /\ Returned
    \/ \E p \in PlayerIds : removePlayer(p) /\ Returned

SpecOverlap == Init /\ [][NextOverlap]_vars

\* SpecConn: the same game with websocket connections coming and going.
NextConn ==
    \/ nextPlayer <= MaxConnJoins /\ joinRoom /\ Returned
    \/ \E p \in PlayerIds : setCurrentTurn(hostSecret, p) /\ Returned
    \/ \E c \in Categories \cup {NoCategory} :
          Len(pending) < 1 /\ ActivateStart(hostSecret, c, NoDifficulty)
    \/ \E q \in FetchResults : ActivateResume(1, q)
    \/ ActivateFetchFail(1)
    \/ openQuestionToBuzzers(hostSecret) /\ Returned
    \/ \E p \in PlayerIds \cup {NoPlayer} : markAnswerCorrect(hostSecret, p) /\ Returned
    \/ \E b \in BOOLEAN : markAnswerIncorrect(hostSecret, b) /\ Returned
    \/ cancelActiveQuestion(hostSecret) /\ Returned
    \/ \E p \in PlayerIds : handleBuzz(p) /\ Returned
    \/ \E p \in PlayerIds : removePlayer(p) /\ Returned
    \/ \E r \in {"host", "player"}, p \in PlayerIds :
          nextConn <= MaxConns /\ registerConnection(r, hostSecret, p) /\ Returned
    \/ \E id \in 1..MaxConns : SocketCloses(id)
    \/ \E id \in 1..MaxConns : removeConnection(id)
    \/ destroyRoom(hostSecret)

SpecConn == Init /\ [][NextConn]_vars

\* SpecShare: two rooms of one GameStore issuing and claiming share codes while
\* time passes, host and players connected to the room modelled in full.
NextShare ==
    \/ nextPlayer <= MaxShareJoins /\ joinRoom /\ Returned
    \/ Len(pending) < 1 /\ ActivateStart(hostSecret, NoCategory, NoDifficulty) /\ lastOp'.result = "fetching"
    \/ \E q \in FetchResults : ActivateResume(1, q)
    \/ \E r \in {"host", "player"}, p \in PlayerIds :
          nextConn <= MaxShareConns /\ registerConnection(r, hostSecret, p) /\ Returned
    \/ snapshot /\ Returned
    \/ destroyRoom(hostSecret) /\ Returned
    \/ \E code \in RoomCodes : issueShareCode(code, hostSecret) /\ Returned
    \/ \E shareCode \in ShareCodes : claimShareCode(shareCode)
    \/ listRooms
    \/ \E d \in TickSteps : ticks < MaxTicks /\ Tick(d)

SpecShare == Init /\ [][NextShare]_vars

\* SpecErr: the game of one room with callers that are rejected: a wrong host
\* secret, unknown players, operations out of turn, messages on a socket before
\* and after its registration.
NextErr ==
    \/ nextPlayer <= MaxErrJoins /\ joinRoom
    \/ \E s \in Secrets, p \in PlayerIds : setCurrentTurn(s, p)
    \/ \E s \in Secrets :
          Len(pending) < 1 /\ ActivateStart(s, NoCategory, NoDifficulty)
    \/ \E q \in FetchResults : ActivateResume(1, q)
    \/ ActivateFetchFail(1)
    \/ \E s \in Secrets : openQuestionToBuzzers(s)
    \/ \E s \in Secrets, p \in PlayerIds \cup {NoPlayer} : markAnswerCorrect(s, p)
    \/ \E s \in Secrets, b \in BOOLEAN : markAnswerIncorrect(s, b)
    \/ \E s \in Secrets : cancelActiveQuestion(s)
    \/ \E p \in PlayerIds : removePlayer(p)
    \/ \E id \in 1..(MaxErrConns + 1), r \in {"host", "player"},
          s \in Secrets, p \in PlayerIds :
          /\ wsRegister(id, r, s, p)
          /\ nextConn <= MaxErrConns \/ ~Returned
    \/ \E id \in 1..(MaxErrConns + 1) : wsBuzz(id)
    \/ \E s \in Secrets : destroyRoom(s)
    \/ \E s \in Secrets :
          /\ share[thisRoom] = NoShare
          /\ issueShareCode(thisRoom, s)
          /\ share'[thisRoom].code \in {NoShareCode, 1}

SpecErr == Init /\ [][NextErr]_vars

\* SpecSnap: snapshots read over HTTP while players come and go, a question is
\* activated, a share code is issued and time passes.
NextSnap ==
    \/ nextPlayer <= MaxSnapJoins /\ joinRoom /\ Returned
    \/ \E p \in PlayerIds : removePlayer(p) /\ Returned
    \/ Len(pending) < 1 /\ ActivateStart(hostSecret, NoCategory, NoDifficulty)
          /\ lastOp'.result = "fetching"
    \/ \E q \in FetchResults : ActivateResume(1, q)
    \/ \E r \in {"host", "player"}, p \in PlayerIds :
          nextConn <= MaxSnapConns /\ registerConnection(r, hostSecret, p) /\ Returned
    \/ issueShareCode(thisRoom, hostSecret) /\ Returned
    \/ \E d \in TickSteps : ticks < MaxTicks /\ Tick(d)
    \/ snapshot /\ Returned

SpecSnap == Init /\ [][NextSnap]_vars

\* SpecDrop: players and connections coming and going in a room without
\* questions.  The close event of a socket that stopped being OPEN is emitted
\* by the event loop, so removeConnection is weakly fair for every socket.
NextDrop ==
    \/ nextPlayer <= MaxDropJoins /\ joinRoom /\ Returned
    \/ \E p \in PlayerIds : setCurrentTurn(hostSecret, p) /\ Returned
    \/ \E p \in PlayerIds : removePlayer(p) /\ Returned
    \/ \E r \in {"host", "player"}, p \in PlayerIds :
          nextConn <= MaxDropConns /\ registerConnection(r, hostSecret, p) /\ Returned
    \/ \E id \in 1..MaxDropConns : SocketCloses(id)
    \/ \E id \in 1..MaxDropConns : removeConnection(id)
    \/ issueShareCode(thisRoom, hostSecret) /\ Returned

SpecDrop ==
    /\ Init
    /\ [][NextDrop]_vars
    /\ \A id \in 1..MaxDropConns : WF_vars(removeConnection(id))

\* SpecCast: a whole game played in a room with a host and a player connected,
\* either of whom may go away, and a share code issued once.
NextCast ==
    \/ nextPlayer <= MaxCastJoins /\ joinRoom /\ Returned
    \/ \E p \in PlayerIds : setCurrentTurn(hostSecret, p) /\ Returned
    \/ Len(pending) < 1 /\ ActivateStart(hostSecret, NoCategory, NoDifficulty)
          /\ lastOp'.result = "fetching"
    \/ \E q \in FetchResults : ActivateResume(1, q)
    \/ openQuestionToBuzzers(hostSecret) /\ Returned
    \/ \E p \in PlayerIds \cup {NoPlayer} : markAnswerCorrect(hostSecret, p) /\ Returned
    \/ \E b \in BOOLEAN : markAnswerIncorrect(hostSecret, b) /\ Returned
    \/ cancelActiveQuestion(hostSecret) /\ Returned
    \/ \E p \in PlayerIds : handleBuzz(p) /\ Returned
    \/ \E p \in PlayerIds : removePlayer(p) /\ Returned
    \/ \E r \in {"host", "player"}, p \in PlayerIds :
          nextConn <= MaxCastConns /\ registerConnection(r, hostSecret, p) /\ Returned
    \/ \E id \in 1..MaxCastConns : SocketCloses(id)
    \/ share[thisRoom] = NoShare /\ issueShareCode(thisRoom, hostSecret) /\ Returned

SpecCast == Init /\ [][NextCast]_vars

\* SpecGone: a room with a player, connections and a share code is destroyed by
\* its host, and every caller goes on addressing it.
NextGone ==
    \/ nextPlayer <= MaxGoneJoins /\ joinRoom
    \/ \E s \in Secrets, p \in PlayerIds : setCurrentTurn(s, p)
    \/ \E s \in Secrets :
          Len(pending) < 1 /\ ActivateStart(s, NoCategory, NoDifficulty)
    \/ \E s \in Secrets : openQuestionToBuzzers(s)
    \/ \E s \in Secrets, p \in PlayerIds \cup {NoPlayer} : markAnswerCorrect(s, p)
    \/ \E s \in Secrets, b \in BOOLEAN : markAnswerIncorrect(s, b)
    \/ \E s \in Secrets : cancelActiveQuestion(s)
    \/ \E p \in PlayerIds : handleBuzz(p)
    \/ \E p \in PlayerIds : removePlayer(p)
    \/ \E r \in {"host", "player"}, s \in Secrets, p \in PlayerIds :
          /\ registerConnection(r, s, p)
          /\ nextConn <= MaxGoneConns \/ ~Returned
    \/ \E id \in 1..MaxGoneConns : SocketCloses(id)
    \/ \E id \in 1..MaxGoneConns : removeConnection(id)
    \/ \E s \in Secrets : destroyRoom(s)
    \/ snapshot
    \/ \E code \in RoomCodes, s \in Secrets : issueShareCode(code, s)
    \/ \E shareCode \in ShareCodes : claimShareCode(shareCode)

SpecGone == Init /\ [][NextGone]_vars

\* SpecCreate: rooms created in a GameStore, the calls overlapping at the
\* category preload, while players join the room modelled in full.
NextCreate ==
    \/ \E k \in Creates, code \in FreshCodes : CreateStart(k, code)
    \/ \E k \in Creates : CreateResume(k)
    \/ nextPlayer <= MaxJoins /\ joinRoom /\ Returned

SpecCreate == Init /\ [][NextCreate]_vars

\* SpecFetch: fetchTriviaQuestion calls followed request by request, for every
\* excludeIds, every state of the fallback file and every run of upstream
\* replies.
NextFetch ==
    \/ \E excludeIds \in SUBSET QuestionIds, loaded \in BOOLEAN,
          fallbackIds \in SUBSET QuestionIds :
          fetchTriviaQuestion(excludeIds, loaded, fallbackIds)
    \/ \E reply \in UpstreamReplies : httpReply(reply)
    \/ fetchFallbackQuestion

SpecFetch == Init /\ [][NextFetch]_vars

\* SpecTurn: the game of one room when no other request is served while a
\* question fetch is outstanding: players join, leave and are put on turn only
\* between the operations of the host.
NextTurn ==
    \/ pending = <<>> /\ nextPlayer <= MaxJoins /\ joinRoom /\ Returned
    \/ \E p \in PlayerIds : pending = <<>> /\ setCurrentTurn(hostSecret, p) /\ Returned
    \/ pending = <<>> /\ ActivateStart(hostSecret, NoCategory, NoDifficulty)
    \/ \E q \in FetchResults : ActivateResume(1, q)
    \/ ActivateFetchFail(1)
    \/ openQuestionToBuzzers(hostSecret) /\ Returned
    \/ \E p \in PlayerIds \cup {NoPlayer} : markAnswerCorrect(hostSecret, p) /\ Returned
    \/ \E b \in BOOLEAN : markAnswerIncorrect(hostSecret, b) /\ Returned
    \/ pending = <<>> /\ cancelActiveQuestion(hostSecret) /\ Returned
    \/ \E p \in PlayerIds : handleBuzz(p) /\ Returned
    \/ \E p \in PlayerIds : pending = <<>> /\ removePlayer(p) /\ Returned

SpecTurn == Init /\ [][NextTurn]_vars

\* SpecReborn: the room is destroyed or emptied, createRoom draws its code
\* again, and the close events of the sockets of the old room arrive when they
\* arrive.
NextReborn ==
    \/ nextPlayer <= MaxRebornJoins /\ joinRoom
    \/ \E r \in {"host", "player"}, p \in PlayerIds :
          /\ registerConnection(r, hostSecret, p)
          /\ nextConn <= MaxRebornConns \/ ~Returned
    \/ \E id \in 1..MaxRebornConns : SocketCloses(id)
    \/ \E id \in 1..MaxRebornConns : removeConnection(id)
    \/ \E p \in PlayerIds : removePlayer(p)
    \/ destroyRoom(hostSecret)
    \/ RecreateStart
    \/ RecreateResume

SpecReborn == Init /\ [][NextReborn]_vars

\* =================================================================== claims
gameVars == <<roomVars, nextPlayer, pending, nextConn, closing, histVars, shareVars>>

BuzzNotAvailable == "Buzz not available now"
AlreadyAttempted == "You already attempted this question"
SlotAlreadyUsed == "That category and difficulty have already been played"
QuestionAlreadyInPlay == "Question already in play"

\* C1: while buzzers are open at most one buzz wins.  A buzz of a player of the
\* room either finds the stage openForBuzz, is the first win since the buzzers
\* were opened and leaves the stage awaitingHostDecision with that player as
\* answeringPlayerId, or it is rejected with BuzzNotAvailable or
\* AlreadyAttempted and changes nothing.
C1_AtMostOneBuzzWinner ==
    [][\A p \in players :
          (registered /\ handleBuzz(p)) =>
              IF lastOp'.result = "ok"
              THEN /\ activeQuestion.stage = "openForBuzz"
                   /\ buzzWins' = 1
                   /\ activeQuestion'.stage = "awaitingHostDecision"
                   /\ activeQuestion'.answeringPlayerId = p
              ELSE /\ lastOp'.result \in {BuzzNotAvailable, AlreadyAttempted}
                   /\ UNCHANGED gameVars]_vars

\* C1 witness: a buzz was turned away after another player had won the episode,
\* while a player who has not attempted the question is in the room
C1_Witness ==
    /\ lastOp = Op("buzz", BuzzNotAvailable)
    /\ buzzWins = 1
    /\ activeQuestion.present
    /\ activeQuestion.stage = "awaitingHostDecision"
    /\ activeQuestion.answeringPlayerId = buzzedBy
    /\ buzzedBy \in players
    /\ players \ activeQuestion.attemptedPlayerIds # {}

\* the slot key activateQuestion computes for a suspended call and the question
\* its fetch resolved to
KeyOf(call, question) ==
    slotKey(IF call.category # NoCategory THEN call.category ELSE question.category,
            question.difficulty)

ActiveKey == slotKey(activeQuestion.category, activeQuestion.difficulty)

\* C2 (as amended): a slot key is committed at most once in a room.  An
\* activation whose fetch returns a question of an unused slot commits and
\* consumes the slot; one whose fetch returns a question of a used slot (the
\* loser of two overlapping calls, or any later call) is rejected with
\* SlotAlreadyUsed and changes nothing; no slot is ever released; and an
\* activate never commits before its fetch returns.
C2_SlotCommitsOnce ==
    [][/\ usedCategorySlots \subseteq usedCategorySlots'
       /\ \A i \in 1..Len(pending), q \in FetchResults :
             ActivateResume(i, q) =>
                 IF KeyOf(pending[i], q) \in usedCategorySlots
                 THEN /\ lastOp'.result = SlotAlreadyUsed
                      /\ everActivated[KeyOf(pending[i], q)] = 1
                      /\ UNCHANGED <<roomVars, histVars>>
                 ELSE /\ lastOp'.result = "ok"
                      /\ everActivated'[KeyOf(pending[i], q)] = 1
                      /\ KeyOf(pending[i], q) \in usedCategorySlots'
       /\ \A c \in Categories \cup {NoCategory}, d \in Difficulties \cup {NoDifficulty} :
             ActivateStart(hostSecret, c, d) =>
                 UNCHANGED <<activeQuestion, usedCategorySlots, everActivated>>]_vars

\* C2 witness: of two calls that overlapped at the fetch, one has committed the
\* only slot ever used in the room and the other has just been rejected for it
C2_Witness ==
    /\ lastOp = Op("activate", SlotAlreadyUsed)
    /\ activeQuestion.present
    /\ usedCategorySlots = {ActiveKey}
    /\ usedQuestions = {}
    /\ everActivated[ActiveKey] = 1

\* C2 as stated: besides the above, every later activate of a used slot fails
\* with SlotAlreadyUsed, that is, it is not turned away for another reason
\* before its fetch
C2_Original ==
    [][/\ \A i \in 1..Len(pending), q \in FetchResults :
             (ActivateResume(i, q) /\ KeyOf(pending[i], q) \in usedCategorySlots) =>
                 lastOp'.result \in {SlotAlreadyUsed, QuestionAlreadyInPlay}
       /\ \A c \in Categories, d \in Difficulties :
             (slotKey(c, d) \in usedCategorySlots /\ ActivateStart(hostSecret, c, d)) =>
                 lastOp'.result = "fetching"]_vars

\* C3 as stated: an activation that reaches its commit point while a question
\* is active fails and leaves that question unchanged
C3_Original ==
    [][\A i \in 1..Len(pending), q \in FetchResults :
          (activeQuestion.present /\ ActivateResume(i, q)) =>
              /\ lastOp'.result # "ok"
              /\ activeQuestion' = activeQuestion]_vars

\* C4 as stated: with an active question, stage = openForBuzz, questionActive
\* and answeringPlayerId = null are equivalent
C4_Original ==
    activeQuestion.present =>
        /\ (activeQuestion.stage = "openForBuzz") <=> questionActive
        /\ questionActive <=> (activeQuestion.answeringPlayerId = NoPlayer)

\* C4 (as amended): questionActive holds exactly when a question is active in
\* stage openForBuzz, and then answeringPlayerId is null; the converse of the
\* latter does not hold.
C4_OpenStageIsLiveFlag ==
    /\ questionActive <=> (activeQuestion.present /\ activeQuestion.stage = "openForBuzz")
    /\ (activeQuestion.present /\ activeQuestion.stage = "openForBuzz") =>
           activeQuestion.answeringPlayerId = NoPlayer
    /\ activeQuestion.present =>
           activeQuestion.stage \in {"openForBuzz", "awaitingHostDecision"}

\* C4 witness: buzzers are open and a player has just been removed
C4_Witness ==
    /\ lastOp = Op("removePlayer", "ok")
    /\ activeQuestion.present
    /\ activeQuestion.stage = "openForBuzz"
    /\ questionActive
    /\ players # {}

\* C5: turnOrder has no duplicates and holds exactly the ids of players.
C5_TurnOrderIsPlayers ==
    /\ \A i, j \in 1..Len(turnOrder) : turnOrder[i] = turnOrder[j] => i = j
    /\ {turnOrder[i] : i \in 1..Len(turnOrder)} = players

\* C5 witness: every join has happened and a player has just been removed from
\* among others
C5_Witness ==
    /\ lastOp = Op("removePlayer", "ok")
    /\ nextPlayer > MaxJoins
    /\ Cardinality(players) = MaxJoins - 1

\* C6 as stated: currentTurnId is null iff turnOrder is empty, and otherwise is
\* turnOrder[currentTurnIndex] and names a present player
C6_Original ==
    /\ (currentTurnId = NoPlayer) <=> (Len(turnOrder) = 0)
    /\ currentTurnId # NoPlayer =>
           /\ currentTurnId = At(turnOrder, currentTurnIndex)
           /\ currentTurnId \in players

\* C6 (as amended): currentTurnId is null when turnOrder is empty; when it is
\* not null it is turnOrder[currentTurnIndex] and names a present player; when
\* it is null over a non-empty turnOrder, currentTurnIndex still points at a
\* present player, the one the next snapshot or activate resolves it to.
C6_TurnIdIsCacheOfIndex ==
    /\ Len(turnOrder) = 0 => currentTurnId = NoPlayer
    /\ currentTurnId # NoPlayer =>
           /\ currentTurnId = At(turnOrder, currentTurnIndex)
           /\ currentTurnId \in players
    /\ (currentTurnId = NoPlayer /\ Len(turnOrder) > 0) =>
           /\ At(turnOrder, currentTurnIndex) \in players
           /\ getCurrentTurnPlayerId(turnOrder, players, currentTurnIndex, currentTurnId)
                  = Turn(currentTurnIndex, At(turnOrder, currentTurnIndex))

\* C6 witness: the player on turn has just been removed while no open
\* connection was registered, and other players remain
C6_Witness ==
    /\ lastOp = Op("removePlayer", "ok")
    /\ OpenOf(connections, closing) = {}
    /\ currentTurnId = NoPlayer
    /\ Len(turnOrder) > 0
    /\ At(turnOrder, currentTurnIndex) \in players

\* C7 as stated: the scores of the players in the room add up to the points
\* awarded over all questions marked correct
C7_Original == SumOver(score, players) = totalAwarded

\* C7 (as amended): the scores of the players in the room, together with the
\* scores that removed players held when they left, add up to the points
\* awarded over all questions marked correct.
C7_ScoresPlusDepartedIsAwarded ==
    SumOver(score, players) + leftWith = totalAwarded

\* C7 witness: a player who had scored has left, and a player in the room has
\* scored too
C7_Witness ==
    /\ leftWith > 0
    /\ SumOver(score, players) > 0

\* the state messages among the frames of a step
StateFrames(msgs) == {m \in msgs : m.type = "state"}

\* a snapshot without the fields that only a host is sent
Redacted(snap) ==
    [snap EXCEPT !.activeQuestion.correctAnswer = Absent,
                 !.activeQuestion.choices = Absent,
                 !.shareCode = NoShareCode,
                 !.shareCodeIssuedAt = NoTime]

\* C8: a snapshot delivered to a player connection, by a broadcast or at
\* registration, or returned by the unauthenticated snapshot read carries no
\* correctAnswer and no choices of the active question, and a null shareCode
\* and shareCodeIssuedAt; a host connection is sent the same snapshot with the
\* answer and choices of the active question and the share code of the room.
C8_OnlyHostIsSentAnswerAndShareCode ==
    \A m \in StateFrames(sent) :
        /\ m.role # "host" =>
               /\ m.snapshot.activeQuestion.correctAnswer = Absent
               /\ m.snapshot.activeQuestion.choices = Absent
               /\ m.snapshot.shareCode = NoShareCode
               /\ m.snapshot.shareCodeIssuedAt = NoTime
        /\ m.role = "host" =>
               /\ m.snapshot.activeQuestion.correctAnswer = activeQuestion.correctAnswer
               /\ m.snapshot.activeQuestion.choices = activeQuestion.choices
               /\ m.snapshot.shareCode = share[thisRoom].code
               /\ m.snapshot.shareCodeIssuedAt = share[thisRoom].issuedAt
        /\ \A n \in StateFrames(sent) : Redacted(n.snapshot) = Redacted(m.snapshot)

\* C8 witness: a broadcast has just reached a host and a player while a
\* question is active and the room holds a share code
C8_Witness ==
    /\ activeQuestion.present
    /\ share[thisRoom].code # NoShareCode
    /\ \E h, p \in StateFrames(sent) :
          /\ h.role = "host"
          /\ p.role = "player"
          /\ h.snapshot.activeQuestion.correctAnswer # Absent
          /\ h.snapshot.shareCode # NoShareCode
          /\ p.snapshot.activeQuestion.id = activeQuestion.id

\* C9 as stated: the share code of a room, if present, differs from that of
\* every other room and expires strictly after the current time
C9_Original ==
    \A r \in rooms :
        share[r].code # NoShareCode =>
            /\ \A o \in rooms \ {r} : share[o].code # share[r].code
            /\ share[r].expiresAt > now

\* C9 (as amended): the share code of a room, if present, differs from that of
\* every other room and expires SHARE_CODE_TTL after it was issued.  An expired
\* code may stay in the room while time passes, but it is never served:
\* claimShareCode only resolves a code that has not expired, listRooms and
\* issueShareCode leave no expired code in any room, and the
\* shareCodeExpiresAt of every snapshot delivered lies in the future.
C9_UniqueAndNeverServedExpired ==
    [][/\ \A r \in rooms' :
             share'[r].code # NoShareCode =>
                 /\ \A o \in rooms' \ {r} : share'[o].code # share'[r].code
                 /\ share'[r].expiresAt = share'[r].issuedAt + SHARE_CODE_TTL
                 /\ share'[r].issuedAt <= now'
       /\ \A c \in ShareCodes :
             (claimShareCode(c) /\ lastOp'.result \in RoomCodes) =>
                 /\ lastOp'.result \in rooms
                 /\ share'[lastOp'.result].code = c
                 /\ share'[lastOp'.result].expiresAt > now
       /\ (listRooms \/ \E r \in RoomCodes : issueShareCode(r, hostSecret)) =>
             \A r \in rooms' :
                 share'[r].code # NoShareCode => share'[r].expiresAt > now
       /\ \A m \in StateFrames(sent') :
             /\ m.snapshot.shareCodeExpiresAt # NoTime =>
                    m.snapshot.shareCodeExpiresAt > now'
             /\ m.snapshot.shareCode # NoShareCode =>
                    m.snapshot.shareCodeExpiresAt # NoTime]_vars

\* C9 witness: time has passed, one room still holds a code that has expired
\* and another room holds a code that has not
C9_Witness ==
    \E r, o \in rooms :
        /\ r # o
        /\ share[r].code # NoShareCode
        /\ share[r].expiresAt <= now
        /\ share[o].code # NoShareCode
        /\ share[o].expiresAt > now

\* C10: the slot of every activation that committed is in usedCategorySlots and
\* no slot is ever removed; a cancel leaves the cancelled question's slot in
\* usedCategorySlots and does not put its id into usedQuestions.
C10_SlotSurvivesCancel ==
    [][/\ usedCategorySlots \subseteq usedCategorySlots'
       /\ \A k \in SlotKeys : everActivated'[k] > 0 => k \in usedCategorySlots'
       /\ (activeQuestion.present /\ cancelActiveQuestion(hostSecret)) =>
              /\ ~activeQuestion'.present
              /\ ActiveKey \in usedCategorySlots'
              /\ activeQuestion.id \notin usedQuestions']_vars

\* C10 witness: the only question ever activated has just been cancelled
C10_Witness ==
    /\ lastOp = Op("cancel", "ok")
    /\ ~activeQuestion.present
    /\ usedCategorySlots # {}
    /\ usedQuestions = {}

\* C11: usedQuestions grows by the id of the active question when it is marked
\* correct or marked incorrect without reopening the buzzers, each of which
\* leaves that id as the last result and no question active; no other step
\* changes usedQuestions, and it starts empty.
C11_UsedQuestionsAreTerminal ==
    [][/\ (\E p \in PlayerIds \cup {NoPlayer} :
              markAnswerCorrect(hostSecret, p) /\ Returned) =>
             /\ usedQuestions' = usedQuestions \cup {activeQuestion.id}
             /\ lastResult'.id = activeQuestion.id
             /\ lastResult'.answeredCorrectly
       /\ (markAnswerIncorrect(hostSecret, FALSE) /\ Returned) =>
             /\ usedQuestions' = usedQuestions \cup {activeQuestion.id}
             /\ lastResult'.id = activeQuestion.id
             /\ ~lastResult'.answeredCorrectly
       /\ usedQuestions' # usedQuestions =>
             /\ lastOp'.op \in {"markCorrect", "markIncorrect"}
             /\ lastOp'.result = "ok"
             /\ activeQuestion.present
             /\ ~activeQuestion'.present
             /\ lastResult'.present
             /\ usedQuestions' = usedQuestions \cup {lastResult'.id}]_vars

\* C11 witness: one question was activated and cancelled, a second one was
\* activated, opened to buzzers and then marked incorrect for good
C11_Witness ==
    /\ lastOp = Op("markIncorrect", "ok")
    /\ ~activeQuestion.present
    /\ lastResult.present
    /\ ~lastResult.answeredCorrectly
    /\ usedQuestions = {lastResult.id}
    /\ Cardinality(usedCategorySlots) = 2
    /\ lastResult.answeredBy # lastResult.assignedTo
\* C12: a room that has had a player or a connection and has none left still
\* awaits the close event of a pruned socket, and it is eventually gone from
\* the registry unless somebody joined or connected again in the meantime.
Emptied ==
    /\ registered
    /\ players = {}
    /\ connections = {}
    /\ (nextPlayer > 1 \/ nextConn > 1)

C12_EmptyRoomIsRemoved ==
    /\ [](Emptied => closing # {})
    /\ Emptied ~> (~registered \/ players # {} \/ connections # {})

\* C12 witness: the last player has left, the last connection was pruned as
\* stale by a broadcast and its close event is still to come
C12_Witness ==
    /\ Emptied
    /\ nextPlayer > 1
    /\ nextConn > 1
    /\ closing # {}
    /\ lastOp = Op("removePlayer", "ok")

\* the errors of the room operations (store.ts throw statements)
TurnRequired == "Set a player on turn before activating a question"
RoomErrors ==
    {"Forbidden", "Player not found", QuestionAlreadyInPlay, TurnRequired,
     SlotAlreadyUsed, "No active question", "Buzzers already open",
     BuzzNotAvailable, AlreadyAttempted, "No answering player to award points"}
        \cup FetchErrors

\* an activateQuestion call ends in an error after its fetch
ActivateFailsLate(i) ==
    \/ ActivateFetchFail(i)
    \/ \E q \in FetchResults : ActivateResume(i, q) /\ lastOp'.result = SlotAlreadyUsed

\* C13 as stated: a step that ends a room operation in an error changes no
\* field of the room, and an activate that fails after its fetch has left
\* currentTurnId as it was when the call began.
C13_Original ==
    [][/\ lastOp'.result \in RoomErrors => UNCHANGED roomVars
       /\ ActivateFailsLate(1) => pending[1].turnIdBefore = pending[1].assignedTo]_vars

\* C13: a step that ends a room operation in an error changes no field of the
\* room, delivers nothing and leaves attemptedPlayerIds, usedCategorySlots,
\* activeQuestion and lastResult alone.  The only write a failed operation has
\* made is the one activate makes before its fetch: it may have resolved a
\* null currentTurnId to the player at turnOrder[currentTurnIndex].
C13_FailedOperationWritesOnlyTurnCache ==
    [][/\ lastOp'.result \in RoomErrors =>
             /\ UNCHANGED <<roomVars, histVars, shareVars>>
             /\ sent' = {}
       /\ (\E s \in Secrets : ActivateStart(s, NoCategory, NoDifficulty)) =>
             /\ UNCHANGED <<registered, players, score, buzzedAt, turnOrder,
                            currentTurnIndex, activeQuestion, questionActive,
                            buzzedBy, lastResult, usedQuestions, usedCategorySlots,
                            connections>>
             /\ currentTurnId' # currentTurnId =>
                   /\ currentTurnId = NoPlayer
                   /\ currentTurnId' = At(turnOrder, currentTurnIndex)
                   /\ lastOp'.result = "fetching"
       /\ ActivateFailsLate(1) =>
             pending[1].turnIdBefore \in {NoPlayer, pending[1].assignedTo}]_vars

\* C13 witness: with the buzzers open and a player already attempted, the host
\* asked to mark incorrect and open the buzzers, which was rejected
C13_Witness ==
    /\ lastOp = Op("markIncorrect", "Buzzers already open")
    /\ activeQuestion.present
    /\ activeQuestion.stage = "openForBuzz"
    /\ activeQuestion.attemptedPlayerIds # {}
    /\ lastResult = NoResult
    /\ connections # {}

\* the options buildSnapshot is called with
SnapshotOptions == {defaultOptions, optionsFor("host"), optionsFor("player")}

\* the snapshot built from the room as it is, and the one built right after it
FirstBuild(options) ==
    builtSnapshot(turnOrder, players, currentTurnIndex, currentTurnId,
                  activeQuestion, share[thisRoom], now, options)

SecondBuild(options) ==
    builtSnapshot(turnOrder, players, FirstBuild(options).turn.index,
                  FirstBuild(options).turn.id, activeQuestion,
                  FirstBuild(options).share, now, options)

\* C14: in every reachable state, a snapshot built twice in a row with the same
\* options is the same snapshot, and the second build writes nothing; a
\* snapshot read changes nothing in the room but currentTurnId, which it may
\* resolve from null to turnOrder[currentTurnIndex], and the share fields,
\* which it clears when the code has expired.
C14_SnapshotIsIdempotent ==
    /\ [](\A options \in SnapshotOptions :
            /\ SecondBuild(options).snapshot = FirstBuild(options).snapshot
            /\ SecondBuild(options).currentTurn = FirstBuild(options).currentTurn
            /\ SecondBuild(options).turn = FirstBuild(options).turn
            /\ SecondBuild(options).share = FirstBuild(options).share)
    /\ [][(snapshot /\ Returned) =>
            /\ sent' = {[type |-> "state", to |-> NoConn, role |-> "anonymous",
                         currentTurn |-> FirstBuild(defaultOptions).currentTurn,
                         snapshot |-> FirstBuild(defaultOptions).snapshot]}
            /\ currentTurnId' = FirstBuild(defaultOptions).currentTurn
            /\ UNCHANGED <<registered, players, score, buzzedAt, turnOrder,
                           currentTurnIndex, activeQuestion, questionActive,
                           buzzedBy, lastResult, usedQuestions, usedCategorySlots,
                           connections, nextPlayer, pending, nextConn, closing,
                           histVars, now, ticks>>
            /\ currentTurnId' # currentTurnId =>
                  /\ currentTurnId = NoPlayer
                  /\ currentTurnId' = At(turnOrder, currentTurnIndex)
            /\ \A r \in RoomCodes :
                  share'[r] # share[r] =>
                      /\ r = thisRoom
                      /\ share[r].expiresAt <= now
                      /\ share'[r] = NoShare]_vars

\* C14 witness: a snapshot has just been read at a time when the share code of
\* the room had run out and the player on turn had left
C14_Witness ==
    /\ lastOp = Op("snapshot", "ok")
    /\ \E m \in sent : m.role = "anonymous"
    /\ now >= SHARE_CODE_TTL
    /\ share[thisRoom] = NoShare
    /\ nextPlayer > MaxSnapJoins
    /\ Cardinality(players) = 1
    /\ currentTurnId \in players
    /\ nextConn = 1

\* the player on turn as every reader of the room resolves it
ResolvedTurn(order, present, index, id) ==
    getCurrentTurnPlayerId(order, present, index, id).id

\* the answering player has left and the host has not decided yet
AnswererGone ==
    /\ registered
    /\ activeQuestion.present
    /\ activeQuestion.stage = "awaitingHostDecision"
    /\ activeQuestion.answeringPlayerId = NoPlayer

\* C15: when the answering player leaves in stage awaitingHostDecision, the
\* question stays active in that stage with no answering player, questionActive
\* false, buzzedBy cleared and the leaver out of attemptedPlayerIds, and the
\* player on turn is the same unless the leaver was on turn.  From that state,
\* in a room still in the registry, markIncorrect with openBuzzers=true opens
\* the buzzers and cancel clears the question.
C15_AnswererLeaves ==
    [][/\ \A p \in PlayerIds :
             (/\ activeQuestion.present
              /\ activeQuestion.stage = "awaitingHostDecision"
              /\ activeQuestion.answeringPlayerId = p
              /\ removePlayer(p)
              /\ Returned) =>
                 /\ activeQuestion'.present
                 /\ activeQuestion'.id = activeQuestion.id
                 /\ activeQuestion'.stage = "awaitingHostDecision"
                 /\ activeQuestion'.answeringPlayerId = NoPlayer
                 /\ ~questionActive'
                 /\ buzzedBy' = NoPlayer
                 /\ p \notin activeQuestion'.attemptedPlayerIds
                 /\ p \notin players'
                 /\ ResolvedTurn(turnOrder, players, currentTurnIndex, currentTurnId) # p =>
                       ResolvedTurn(turnOrder', players', currentTurnIndex', currentTurnId')
                         = ResolvedTurn(turnOrder, players, currentTurnIndex, currentTurnId)
       /\ (AnswererGone /\ markAnswerIncorrect(hostSecret, TRUE)) =>
             /\ Returned
             /\ activeQuestion'.stage = "openForBuzz"
             /\ questionActive'
             /\ activeQuestion'.attemptedPlayerIds = activeQuestion.attemptedPlayerIds
       /\ (AnswererGone /\ cancelActiveQuestion(hostSecret)) =>
             /\ Returned
             /\ ~activeQuestion'.present]_vars

\* C15 witness: the player who had buzzed left while another player was on
\* turn, and the host has then opened the buzzers again
C15_Witness ==
    /\ lastOp = Op("markIncorrect", "ok")
    /\ activeQuestion.present
    /\ activeQuestion.stage = "openForBuzz"
    /\ activeQuestion.assignedTo \in players
    /\ currentTurnId = activeQuestion.assignedTo
    /\ leftWith = 0
    /\ Cardinality(players) < nextPlayer - 1
    /\ activeQuestion.attemptedPlayerIds = {activeQuestion.assignedTo}

\* a question finishes: it is marked correct, or incorrect for good
Finishes ==
    /\ \/ \E p \in PlayerIds \cup {NoPlayer} : markAnswerCorrect(hostSecret, p)
       \/ markAnswerIncorrect(hostSecret, FALSE)
    /\ Returned

\* C16: when a question finishes, currentTurnIndex becomes the index captured
\* at activation plus one, modulo the length of turnOrder, and currentTurnId
\* the player at that index, whatever currentTurnIndex and currentTurnId were
\* and whoever answered; both become null when turnOrder is empty.  (A question
\* committed while turnOrder was empty captured no index; the turn then
\* advances from the current index.)
C16_TurnAdvancesFromCapturedIndex ==
    [][Finishes =>
         LET captured == activeQuestion.turnIndex
             n == Len(turnOrder)
         IN /\ turnOrder' = turnOrder
            /\ IF n = 0
               THEN /\ currentTurnIndex' = NullIndex
                    /\ currentTurnId' = NoPlayer
               ELSE /\ currentTurnIndex' =
                          (IF captured # NullIndex THEN captured + 1
                           ELSE currentTurnIndex + 1) % n
                    /\ currentTurnId' = At(turnOrder, currentTurnIndex')
                    /\ currentTurnId' \in players]_vars

\* C16 witness: the question was assigned to the first of three players, the
\* host awarded it to the second without any buzz, and the turn went to the
\* player after the first
C16_Witness ==
    /\ lastOp = Op("markCorrect", "ok")
    /\ lastResult.present
    /\ Len(turnOrder) = 3
    /\ lastResult.assignedTo = At(turnOrder, 0)
    /\ lastResult.answeredBy = At(turnOrder, 1)
    /\ currentTurnIndex = 1
    /\ currentTurnId = At(turnOrder, 1)
    /\ buzzWins = 0

\* a host operation of the room called with the secret s
HostCall(s) ==
    \/ \E p \in PlayerIds : setCurrentTurn(s, p)
    \/ ActivateStart(s, NoCategory, NoDifficulty)
    \/ openQuestionToBuzzers(s)
    \/ \E p \in PlayerIds \cup {NoPlayer} : markAnswerCorrect(s, p)
    \/ \E b \in BOOLEAN : markAnswerIncorrect(s, b)
    \/ cancelActiveQuestion(s)
    \/ destroyRoom(s)
    \/ issueShareCode(thisRoom, s)

\* C17: in a room of the registry, every host operation called with a secret
\* other than the room's ends with Forbidden, changes nothing and delivers
\* nothing; a host registration with such a secret ends with the error the
\* socket is sent for Forbidden, "Invalid host secret", adds no connection and
\* delivers nothing.
C17_WrongSecretIsForbidden ==
    [][registered =>
         \A s \in Secrets \ {hostSecret} :
            /\ HostCall(s) =>
                  /\ lastOp'.result = "Forbidden"
                  /\ UNCHANGED gameVars
                  /\ sent' = {}
            /\ (\E p \in PlayerIds : wsRegister(nextConn, "host", s, p)) =>
                  /\ lastOp' = Op("register", "Invalid host secret")
                  /\ UNCHANGED gameVars
                  /\ sent' = {}]_vars

\* C17 witness: with a question awaiting the host's decision and a connection
\* open, a caller without the secret tried to mark the answer correct
C17_Witness ==
    /\ lastOp = Op("markCorrect", "Forbidden")
    /\ registered
    /\ activeQuestion.present
    /\ activeQuestion.stage = "awaitingHostDecision"
    /\ OpenOf(connections, closing) # {}
    /\ lastResult = NoResult

\* what a room holds about its players and its question
playerVars == <<players, score, buzzedAt, turnOrder, currentTurnIndex,
                currentTurnId, activeQuestion, questionActive, buzzedBy,
                lastResult, usedQuestions, usedCategorySlots>>

\* C18: a socket going away and the close event that follows change nothing
\* about the players, the turn, the scores or the question; a step that prunes
\* stale connections in a broadcast keeps every player in players and in
\* turnOrder; and whenever a player disappears from players, the step is a
\* removePlayer of that one player.
C18_DroppedConnectionKeepsPlayers ==
    [][/\ \A id \in 1..MaxConns :
             (SocketCloses(id) \/ removeConnection(id)) => UNCHANGED playerVars
       /\ (\E c \in connections : c \notin connections') /\ lastOp'.op # "removePlayer" =>
             /\ players \subseteq players'
             /\ \A p \in players : score'[p] >= score[p]
             /\ Len(turnOrder') >= Len(turnOrder)
             /\ SubSeq(turnOrder', 1, Len(turnOrder)) = turnOrder
       /\ players \ players' # {} =>
             /\ lastOp' = Op("removePlayer", "ok")
             /\ \E p \in players : /\ players' = players \ {p}
                                   /\ removePlayer(p)]_vars

\* C18 witness: the close event of the last connection has been handled in a
\* room that keeps its two players, the turn and a question in play
C18_Witness ==
    /\ lastOp = Op("removeConnection", "ok")
    /\ registered
    /\ connections = {}
    /\ closing = {}
    /\ Cardinality(players) = 2
    /\ currentTurnId \in players
    /\ activeQuestion.present

\* C19: a buzz on a socket that has not registered is answered with an error
\* and changes nothing; a register on a socket that has registered is
\* answered "Already registered" and changes neither the connections of the
\* room, with their roles and player ids, nor anything else; a buzz on a
\* socket registered as host is answered with an error and changes nothing.
C19_SocketProtocol ==
    [][/\ wsBuzz(nextConn) =>
             /\ lastOp' = Op("buzz", "Register before sending other messages")
             /\ UNCHANGED gameVars
             /\ sent' = {}
       /\ \A c \in OpenOf(connections, closing) :
             /\ (\E r \in {"host", "player"}, s \in Secrets, p \in PlayerIds :
                    wsRegister(c.id, r, s, p)) =>
                   /\ lastOp' = Op("register", "Already registered")
                   /\ connections' = connections
                   /\ UNCHANGED gameVars
                   /\ sent' = {}
             /\ (c.role = "host" /\ wsBuzz(c.id)) =>
                   /\ lastOp' = Op("buzz", "Only players can buzz")
                   /\ UNCHANGED gameVars
                   /\ sent' = {}]_vars

\* C19 witness: with the buzzers open, the socket registered as host has sent
\* a register message again
C19_Witness ==
    /\ lastOp = Op("register", "Already registered")
    /\ \E c \in OpenOf(connections, closing) : c.role = "host"
    /\ activeQuestion.present
    /\ activeQuestion.stage = "openForBuzz"
    /\ questionActive

\* the rooms whose share code is shareCode and has not run out
LiveHolders(shareCode) ==
    {r \in rooms : share[r].code = shareCode /\ share[r].expiresAt > now}

\* the room holds a share code that has run out
Expired(r) == share[r].code # NoShareCode /\ share[r].expiresAt <= now

Broadcasts ==
    \/ joinRoom
    \/ \E p \in PlayerIds : setCurrentTurn(hostSecret, p)
    \/ \E p \in PlayerIds : removePlayer(p)
    \/ issueShareCode(thisRoom, hostSecret)

Commits ==
    \/ joinRoom
    \/ \E p \in PlayerIds : setCurrentTurn(hostSecret, p)
    \/ \E q \in FetchResults : ActivateResume(1, q)
    \/ openQuestionToBuzzers(hostSecret)
    \/ \E p \in PlayerIds \cup {NoPlayer} : markAnswerCorrect(hostSecret, p)
    \/ \E b \in BOOLEAN : markAnswerIncorrect(hostSecret, b)
    \/ activeQuestion.present /\ cancelActiveQuestion(hostSecret)
    \/ \E p \in PlayerIds : handleBuzz(p)
    \/ \E p \in PlayerIds : removePlayer(p)
    \/ issueShareCode(thisRoom, hostSecret)

\* C22: a transition of the room that commits (join, setTurn, activate,
\* openBuzzers, buzz, markCorrect, markIncorrect, cancel of an active question,
\* issueShareCode, removePlayer that leaves the room in existence) delivers,
\* in the step in which it commits, exactly one state message to every
\* registered connection that is open, and no other frame; the message is
\* built for the role of its receiver from the room as the transition left
\* it: its active question, its player on turn and its share code.  As each
\* step delivers the messages of its own transition, a connection receives
\* them in the order of the commits.
C22_EveryCommitBroadcastsPostState ==
    [][(registered /\ Commits /\ Returned /\ registered') =>
          /\ \A c \in OpenOf(connections', closing') :
                {m \in sent' : m.to = c.id} =
                    {stateMessage(c.id, c.role, currentTurnId', activeQuestion',
                                  share'[thisRoom], optionsFor(c.role))}
          /\ \A m \in sent' : \E c \in OpenOf(connections', closing') : c.id = m.to]_vars

\* C22 witness: a host and a player are connected, a player has just buzzed,
\* and both connections have the state message that shows the question
\* awaiting the decision of the host
C22_Witness ==
    /\ lastOp = Op("buzz", "ok")
    /\ \E h, p \in connections :
          /\ h.role = "host"
          /\ p.role = "player"
          /\ \E m, n \in StateFrames(sent) :
                /\ m.to = h.id
                /\ n.to = p.id
                /\ m.snapshot.activeQuestion.stage = "awaitingHostDecision"
                /\ n.snapshot.activeQuestion.stage = "awaitingHostDecision"
                /\ m.currentTurn = currentTurnId

\* the operations of GameStore that are addressed to the code of this room,
\* with any secret and any player
AddressesRoom ==
    \/ joinRoom
    \/ \E x \in Secrets, p \in PlayerIds : setCurrentTurn(x, p)
    \/ \E x \in Secrets : ActivateStart(x, NoCategory, NoDifficulty)
    \/ \E x \in Secrets : openQuestionToBuzzers(x)
    \/ \E x \in Secrets, p \in PlayerIds \cup {NoPlayer} : markAnswerCorrect(x, p)
    \/ \E x \in Secrets, b \in BOOLEAN : markAnswerIncorrect(x, b)
    \/ \E x \in Secrets : cancelActiveQuestion(x)
    \/ \E p \in PlayerIds : handleBuzz(p)
    \/ \E p \in PlayerIds : removePlayer(p)
    \/ \E x \in Secrets : destroyRoom(x)
    \/ snapshot
    \/ \E x \in Secrets : issueShareCode(thisRoom, x)

C24_Original ==
    \A k \in Creates :
        returned[k] # NoCode => created[returned[k]] = k

\* C25 as stated: right after an activate commits, the active question awaits
\* the decision of the host, is assigned to and answered by the player the
\* room has on turn, who is its only attempted player, carries the turn index
\* of the room, at which turnOrder holds the assigned player, and the room has
\* no live buzz, no last result and no buzzedAt; whatever happened in the room,
\* which is still registered, while the question was fetched
C25_Original ==
    [][(registered /\ (\E q \in FetchResults : ActivateResume(1, q)) /\ Returned) =>
          /\ activeQuestion'.present
          /\ activeQuestion'.stage = "awaitingHostDecision"
          /\ activeQuestion'.assignedTo = currentTurnId'
          /\ activeQuestion'.answeringPlayerId = currentTurnId'
          /\ activeQuestion'.attemptedPlayerIds = {currentTurnId'}
          /\ activeQuestion'.turnIndex = currentTurnIndex'
          /\ At(turnOrder', activeQuestion'.turnIndex) = activeQuestion'.assignedTo
          /\ questionActive' = FALSE
          /\ lastResult' = NoResult
          /\ buzzedBy' = NoPlayer
          /\ buzzedAt' = {}]_vars

\* C26: a buzz of a connected player is rejected with "Buzz not available now"
\* whenever no question is active or the stage is not openForBuzz, whether or
\* not the player has attempted, and with "You already attempted this
\* question" when the stage is openForBuzz and the player is among the
\* attempted; both leave the room as it was.  Otherwise the buzz makes the
\* player buzzedBy and the answering player, gives the player a buzzedAt,
\* adds the player to the attempted, and leaves the stage
\* awaitingHostDecision and questionActive false.  Whatever socket a buzz
\* message arrives on, the step answers it: with the error when rejected.
C26_BuzzOutcomes ==
    [][/\ \A c \in OpenOf(connections, closing) :
             (c.role = "player" /\ wsBuzz(c.id)) =>
                 IF ~activeQuestion.present \/ activeQuestion.stage # "openForBuzz"
                 THEN /\ lastOp' = Op("buzz", BuzzNotAvailable)
                      /\ UNCHANGED gameVars
                 ELSE IF c.playerId \in activeQuestion.attemptedPlayerIds
                 THEN /\ lastOp' = Op("buzz", AlreadyAttempted)
                      /\ UNCHANGED gameVars
                 ELSE /\ lastOp' = Op("buzz", "ok")
                      /\ buzzedBy' = c.playerId
                      /\ activeQuestion'.answeringPlayerId = c.playerId
                      /\ buzzedAt' = buzzedAt \cup {c.playerId}
                      /\ activeQuestion'.attemptedPlayerIds =
                             activeQuestion.attemptedPlayerIds \cup {c.playerId}
                      /\ activeQuestion'.stage = "awaitingHostDecision"
                      /\ questionActive' = FALSE
       /\ \A id \in 1..(MaxErrConns + 1) :
             wsBuzz(id) =>
                 /\ lastOp'.op = "buzz"
                 /\ lastOp'.result # "ok" =>
                        lastOp'.result \in
                            {"Register before sending other messages",
                             "Only players can buzz", BuzzNotAvailable,
                             AlreadyAttempted}]_vars

\* C26 witness: the connected player has attempted the question, which awaits
\* the decision of the host, and the buzz of that player has just been
\* rejected because the buzzers are not open
C26_Witness ==
    /\ lastOp = Op("buzz", BuzzNotAvailable)
    /\ activeQuestion.present
    /\ activeQuestion.stage = "awaitingHostDecision"
    /\ \E c \in OpenOf(connections, closing) :
          /\ c.role = "player"
          /\ c.playerId \in activeQuestion.attemptedPlayerIds

\* C27: openBuzzers by the host fails with "No active question" when no
\* question is active and with "Buzzers already open" when the stage is
\* openForBuzz, changing nothing; from awaitingHostDecision it adds the
\* answering player, if there is one, to the attempted players, leaves no
\* answering player, the stage openForBuzz and questionActive true, clears
\* buzzedBy and every buzzedAt, and changes no score, no part of the turn, no
\* used question and no used slot.
C27_OpenBuzzers ==
    [][(registered /\ openQuestionToBuzzers(hostSecret)) =>
          IF ~activeQuestion.present
          THEN /\ lastOp' = Op("openBuzzers", "No active question")
               /\ UNCHANGED gameVars
          ELSE IF activeQuestion.stage = "openForBuzz"
          THEN /\ lastOp' = Op("openBuzzers", "Buzzers already open")
               /\ UNCHANGED gameVars
          ELSE /\ activeQuestion.stage = "awaitingHostDecision"
               /\ lastOp' = Op("openBuzzers", "ok")
               /\ activeQuestion'.attemptedPlayerIds =
                      activeQuestion.attemptedPlayerIds \cup
                          ({activeQuestion.answeringPlayerId} \ {NoPlayer})
               /\ activeQuestion'.answeringPlayerId = NoPlayer
               /\ activeQuestion'.stage = "openForBuzz"
               /\ questionActive' = TRUE
               /\ buzzedBy' = NoPlayer
               /\ buzzedAt' = {}
               /\ UNCHANGED <<players, score, turnOrder, currentTurnIndex,
                              currentTurnId, lastResult, usedQuestions,
                              usedCategorySlots, totalAwarded>>]_vars

\* C27 witness: a player had buzzed and was answering when the host opened the
\* buzzers again: the buzzers are open, nobody answers, the players who
\* attempted are more than the assigned one, and no buzz is left in the room
C27_Witness ==
    /\ lastOp = Op("openBuzzers", "ok")
    /\ activeQuestion.present
    /\ activeQuestion.stage = "openForBuzz"
    /\ activeQuestion.answeringPlayerId = NoPlayer
    /\ Cardinality(activeQuestion.attemptedPlayerIds) = 2
    /\ questionActive
    /\ buzzedBy = NoPlayer
    /\ buzzedAt = {}

\* C28: markCorrect on an active question awards the points of the question
\* to one player, the one the host names or else the answering player, and to
\* nobody else; it fails with "No answering player to award points" when
\* there is neither and with "Player not found" when the player is not in the
\* room, changing nothing.  No step lowers the score of a player of the room,
\* and only a markCorrect that returns changes one.
C28_OnlyMarkCorrectAwards ==
    [][/\ \A p \in PlayerIds \cup {NoPlayer} :
             (registered /\ activeQuestion.present
                 /\ markAnswerCorrect(hostSecret, p)) =>
                 LET awarded == IF p # NoPlayer THEN p
                                ELSE activeQuestion.answeringPlayerId
                 IN IF awarded = NoPlayer
                    THEN /\ lastOp' = Op("markCorrect",
                                         "No answering player to award points")
                         /\ UNCHANGED gameVars
                    ELSE IF awarded \notin players
                    THEN /\ lastOp' = Op("markCorrect", "Player not found")
                         /\ UNCHANGED gameVars
                    ELSE /\ lastOp' = Op("markCorrect", "ok")
                         /\ score'[awarded] = score[awarded] + activeQuestion.points
                         /\ \A o \in PlayerIds \ {awarded} : score'[o] = score[o]
       /\ \A p \in players \cap players' :
             /\ score'[p] >= score[p]
             /\ score'[p] # score[p] =>
                   /\ lastOp' = Op("markCorrect", "ok")
                   /\ \E x \in PlayerIds \cup {NoPlayer} :
                         markAnswerCorrect(hostSecret, x)]_vars

\* C28 witness: the host has just marked the question correct for a player
\* other than the one it was assigned to, and that player holds its points
C28_Witness ==
    /\ lastOp = Op("markCorrect", "ok")
    /\ lastResult.present
    /\ lastResult.answeredBy # lastResult.assignedTo
    /\ lastResult.answeredBy \in players
    /\ score[lastResult.answeredBy] = lastResult.pointsAwarded
    /\ lastResult.pointsAwarded > 0
    /\ \A o \in players \ {lastResult.answeredBy} : score[o] = 0

\* C29: markIncorrect with openBuzzers on a question that awaits the decision
\* of the host and has no answering player, the answerer having left,
\* returns and leaves the same question in stage openForBuzz with
\* questionActive true, no question added to usedQuestions and no lastResult
\* recorded; markIncorrect without openBuzzers, in either stage, adds the id
\* of the question to usedQuestions, records a lastResult that is not correct
\* and awards 0 points, and finishes the question; neither changes a score.
C29_MarkIncorrect ==
    [][/\ (/\ registered
           /\ activeQuestion.present
           /\ activeQuestion.stage = "awaitingHostDecision"
           /\ activeQuestion.answeringPlayerId = NoPlayer
           /\ markAnswerIncorrect(hostSecret, TRUE)) =>
              /\ lastOp' = Op("markIncorrect", "ok")
              /\ activeQuestion'.present
              /\ activeQuestion'.id = activeQuestion.id
              /\ activeQuestion'.stage = "openForBuzz"
              /\ activeQuestion'.attemptedPlayerIds = activeQuestion.attemptedPlayerIds
              /\ questionActive' = TRUE
              /\ UNCHANGED <<usedQuestions, lastResult, score>>
       /\ (registered /\ activeQuestion.present
              /\ markAnswerIncorrect(hostSecret, FALSE)) =>
              /\ lastOp' = Op("markIncorrect", "ok")
              /\ usedQuestions' = usedQuestions \cup {activeQuestion.id}
              /\ lastResult'.present
              /\ lastResult'.id = activeQuestion.id
              /\ lastResult'.answeredCorrectly = FALSE
              /\ lastResult'.pointsAwarded = 0
              /\ ~activeQuestion'.present
              /\ questionActive' = FALSE
              /\ UNCHANGED score]_vars

\* C29 witness: the player the question was assigned to has left, and the host
\* has marked the answer incorrect and opened the buzzers: the question is
\* open to the players that remain, none of whom has attempted it
C29_Witness ==
    /\ registered
    /\ lastOp = Op("markIncorrect", "ok")
    /\ activeQuestion.present
    /\ activeQuestion.stage = "openForBuzz"
    /\ activeQuestion.assignedTo = NoPlayer
    /\ activeQuestion.attemptedPlayerIds = {}
    /\ questionActive
    /\ players # {}
    /\ lastResult = NoResult

\* C30: removePlayer(p) with no active question keeps the turn stable.  With
\* the player on turn taken as every reader resolves it: if p is not that
\* player, the same player is on turn afterwards, currentTurnIndex being one
\* less when p stood before that player in turnOrder and the same when p
\* stood after; if p is on turn and is not the only player, the turn passes
\* to the player who followed p in turnOrder, the first one when p was last;
\* if p is the only player, currentTurnIndex and currentTurnId become null.
C30_RemovePlayerKeepsTurn ==
    [][\A p \in players :
          (registered /\ ~activeQuestion.present /\ removePlayer(p)) =>
              LET before == ResolvedTurn(turnOrder, players,
                                         currentTurnIndex, currentTurnId)
                  after == ResolvedTurn(turnOrder', players',
                                        currentTurnIndex', currentTurnId')
                  at == IndexOf(turnOrder, p)
              IN /\ lastOp' = Op("removePlayer", "ok")
                 /\ (p # before /\ before # NoPlayer) =>
                       /\ after = before
                       /\ At(turnOrder', currentTurnIndex') = before
                       /\ currentTurnIndex' =
                              IF at < IndexOf(turnOrder, before)
                              THEN currentTurnIndex - 1 ELSE currentTurnIndex
                 /\ (p = before /\ players # {p}) =>
                       /\ after = At(turnOrder, (at + 1) % Len(turnOrder))
                       /\ after \in players'
                 /\ players = {p} =>
                       /\ currentTurnIndex' = NullIndex
                       /\ currentTurnId' = NoPlayer]_vars

\* C30 witness: three players joined, the third is on turn and no question is
\* active; the first has just left, the third is still on turn and its index
\* in the turn order is one less
C30_Witness ==
    /\ registered
    /\ lastOp = Op("removePlayer", "ok")
    /\ ~activeQuestion.present
    /\ turnOrder = <<2, 3>>
    /\ currentTurnId = 3
    /\ currentTurnIndex = 1

\* C31 as stated, its last clause: once a room that held a share code has been
\* issued another, the code it held before is not the code of that room
C31_Original ==
    [][\A r \in RoomCodes :
          (issueShareCode(r, hostSecret) /\ Returned /\ share[r].code # NoShareCode) =>
              share'[r].code # share[r].code]_vars

\* C31 (as amended): issueShareCode gives the room a 4-digit code that no other
\* room holds, issued now and expiring SHARE_CODE_TTL later.  The code replaces
\* whatever the room held.  A code the room held that had not expired is never
\* drawn again by the re-issue, and right after it no room holds it, so a claim
\* of it fails with "Share code not found" until some room is issued the same
\* digits; a code that had expired was not claimable any more and its digits
\* may be drawn again, by this very re-issue too.  A claim never resolves to a
\* room by a code the room no longer holds.
C31_IssueReplacesCode ==
    [][/\ \A r \in RoomCodes :
             (issueShareCode(r, hostSecret) /\ Returned) =>
                 /\ share'[r].code \in ShareCodes
                 /\ \A o \in rooms' \ {r} : share'[o].code # share'[r].code
                 /\ share'[r].issuedAt = now
                 /\ share'[r].expiresAt = now + SHARE_CODE_TTL
                 /\ (share[r].code # NoShareCode /\ share[r].expiresAt > now) =>
                        /\ replaced' = [room |-> r, code |-> share[r].code]
                        /\ \A o \in rooms' : share'[o].code # share[r].code
       /\ \A c \in ShareCodes :
             (claimShareCode(c) /\ replaced.code = c /\ share[replaced.room].code # c) =>
                 /\ lastOp'.result # replaced.room
                 /\ (\A o \in rooms : share[o].code # c) =>
                        lastOp' = Op("claimShareCode", "Share code not found")]_vars

\* C31 witness: the room was issued a second code while its first had not
\* expired, the other room holds a third, and a claim has just failed: the
\* claim was of the first code, the only one no room holds
C31_Witness ==
    /\ lastOp = Op("claimShareCode", "Share code not found")
    /\ replaced.room = thisRoom
    /\ share[thisRoom].code # NoShareCode
    /\ share[thisRoom].expiresAt > now
    /\ share[otherRoom].code # NoShareCode
    /\ share[otherRoom].expiresAt > now
    /\ Cardinality({replaced.code, share[thisRoom].code,
                    share[otherRoom].code}) = Cardinality(ShareCodes)

\* an upstream reply that does not end the call: the request threw, the list
\* was empty, or the question is one of excludeIds
FailedOrRepeated(reply, excludeIds) ==
    \/ reply.kind \in {"error", "empty"}
    \/ reply.kind = "question" /\ reply.id \in excludeIds

\* the call has left its loop for the fallback set
FellBack == fetch.stage = "fallback" \/ fetch.source = "fallback" \/ fetch.stage = "threw"

\* C32 as stated: fetchTriviaQuestion never returns a question whose id is in
\* excludeIds, from upstream or from the fallback set; it makes at most three
\* upstream requests, a reply with an excluded id is never what it returns, and
\* it turns to the fallback set only after three requests in a row have failed
\* or returned an excluded id
C32_Original ==
    /\ fetch.stage = "returned" => fetch.result \notin fetch.excludeIds
    /\ Len(fetch.replies) <= MaxAttempts
    /\ \A i \in 1..Len(fetch.replies) :
           FailedOrRepeated(fetch.replies[i], fetch.excludeIds) =>
               ~(fetch.stage = "returned" /\ fetch.source = "upstream"
                     /\ i = Len(fetch.replies))
    /\ FellBack =>
           /\ Len(fetch.replies) = MaxAttempts
           /\ \A i \in 1..Len(fetch.replies) :
                  FailedOrRepeated(fetch.replies[i], fetch.excludeIds)

\* index.ts: the host commands whose errors go through handleHostError
HostCommands ==
    {"setTurn", "activate", "openBuzzers", "markCorrect", "markIncorrect", "cancel"}

\* the last step ended a host command in an error
HostCommandFailed ==
    /\ lastOp.op \in HostCommands
    /\ lastOp.result \notin {"ok", "fetching"}

\* C33 as stated: every error a room operation raises for a host command is
\* answered with its own status, the used slot of activate and an unavailable
\* provider included, and never with 500 "Unexpected error"
C33_Original ==
    HostCommandFailed => handleHostError(lastOp.result).status # 500

\* the player ids the room refers to from its active question and buzzedBy
ReferencedPlayers ==
    (IF activeQuestion.present
     THEN {activeQuestion.assignedTo, activeQuestion.answeringPlayerId}
              \cup activeQuestion.attemptedPlayerIds
     ELSE {})
        \cup {buzzedBy}

\* C34 as stated: every player the active question refers to (assignedTo,
\* answeringPlayerId, attemptedPlayerIds) and buzzedBy is a player of the room,
\* whatever happened while a question fetch was outstanding
C34_Original ==
    registered => ReferencedPlayers \subseteq players \cup {NoPlayer}

\* the player after p in turnOrder, the first one after the last
Successor(order, p) ==
    At(order, (IndexOf(order, p) + 1) % Len(order))

\* C35 as stated: when a question finishes, the turn goes to the player who
\* follows, in turnOrder, the player the question was assigned to, whoever left
\* the room while the question was active
C35_Original ==
    [][(/\ registered
        /\ activeQuestion.present
        /\ activeQuestion.assignedTo \in players
        /\ Finishes) =>
           ResolvedTurn(turnOrder', players', currentTurnIndex', currentTurnId') =
               Successor(turnOrder, activeQuestion.assignedTo)]_vars

\* C36 as stated: the close event of a connection never takes out of the
\* registry a room that was created after the connection was registered
C36_Original ==
    [][\A id \in 1..MaxRebornConns :
          (registered /\ id < bornAt /\ removeConnection(id)) => registered']_vars

\* C37: a room without an active question has questionActive false, no
\* buzzedBy and no player with a buzzedAt; and while buzzedBy is set there is an
\* active question in stage awaitingHostDecision whose answeringPlayerId is
\* buzzedBy
C37_BuzzStateFollowsQuestion ==
    registered =>
        /\ ~activeQuestion.present =>
              (~questionActive /\ buzzedBy = NoPlayer /\ buzzedAt = {})
        /\ buzzedBy # NoPlayer =>
              /\ activeQuestion.present
              /\ activeQuestion.stage = "awaitingHostDecision"
              /\ activeQuestion.answeringPlayerId = buzzedBy

\* a question on which a player had buzzed in has just been cancelled
C37_Witness ==
    /\ registered
    /\ lastOp = Op("cancel", "ok")
    /\ ~activeQuestion.present
    /\ buzzWins > 0
    /\ buzzedBy = NoPlayer
    /\ buzzedAt = {}

\* C38: whenever the room has an active question, in either stage and with or
\* without an answering player, markAnswerIncorrect without opening the buzzers
\* and cancelActiveQuestion, called by the host, both succeed and leave the
\* room without an active question
C38_HostCanAlwaysCloseQuestion ==
    [][(/\ registered
        /\ activeQuestion.present
        /\ \/ markAnswerIncorrect(hostSecret, FALSE)
           \/ cancelActiveQuestion(hostSecret)) =>
           (Returned /\ ~activeQuestion'.present /\ ~questionActive')]_vars

\* a question that was open for buzzing, with nobody answering, has just been
\* closed as incorrect
C38_Witness ==
    /\ registered
    /\ lastOp = Op("markIncorrect", "ok")
    /\ ~activeQuestion.present
    /\ lastResult.present
    /\ ~lastResult.answeredCorrectly
    /\ lastResult.answeredBy = NoPlayer
    /\ players # {}

\* C39 as stated, its first clause: a claim that succeeds changes no share
\* field of any room
C39_Original ==
    [][\A c \in ShareCodes :
          (claimShareCode(c) /\ lastOp'.result \in RoomCodes) =>
              share' = share]_vars

\* C39: a claim that succeeds changes nothing of the room it resolves to and
\* nothing of the game of any room; all it may change is the share fields of a
\* room whose code has run out, which it clears.  So the code stays claimable
\* with the same room and the same expiresAt, and a code stops being claimable
\* only when it runs out, when its room is issued another code, or when its
\* room leaves the registry.
C39_ClaimDoesNotConsume ==
    [][/\ \A c \in ShareCodes :
             (claimShareCode(c) /\ lastOp'.result \in RoomCodes) =>
                /\ share'[lastOp'.result] = share[lastOp'.result]
                /\ LiveHolders(c)' = LiveHolders(c)
                /\ LiveHolders(c) = {lastOp'.result}
                /\ \A r \in RoomCodes :
                      share'[r] = share[r] \/ (Expired(r) /\ share'[r] = NoShare)
                /\ UNCHANGED <<roomVars, nextPlayer, pending, now>>
       /\ \A c \in ShareCodes, r \in RoomCodes :
             (r \in LiveHolders(c) /\ r \notin LiveHolders(c)') =>
                \/ share[r].expiresAt <= now'
                \/ issueShareCode(r, hostSecret) /\ Returned
                \/ r \notin rooms']_vars

\* C39 witness: the code of the room has been claimed some time after it was
\* issued, and the room still holds it
C39_Witness ==
    /\ lastOp = Op("claimShareCode", thisRoom)
    /\ thisRoom \in LiveHolders(share[thisRoom].code)
    /\ share[thisRoom].issuedAt < now
    /\ share[otherRoom] = NoShare

\* C40: currentTurnIndex is null exactly when turnOrder is empty, and
\* otherwise it is an index of turnOrder: 0 <= currentTurnIndex < |turnOrder|
C40_TurnIndexInRange ==
    registered =>
        /\ (currentTurnIndex = NullIndex) <=> (turnOrder = <<>>)
        /\ turnOrder # <<>> =>
              (0 <= currentTurnIndex /\ currentTurnIndex < Len(turnOrder))

\* C40 witness: players have left while a question is active, and the turn
\* index captured at its activation is past the end of the shrunken turnOrder
C40_Witness ==
    /\ registered
    /\ lastOp = Op("removePlayer", "ok")
    /\ activeQuestion.present
    /\ turnOrder # <<>>
    /\ activeQuestion.turnIndex >= Len(turnOrder)
    /\ currentTurnIndex < Len(turnOrder)

====
